---- MODULE Spec2Model ----
(***************************************************************************)
(* Serial-port forwarder with durable buffering.                           *)
(*                                                                         *)
(* Two engines are modelled:                                               *)
(*   - SinglePortForwarder     (serial_forwarder.py): serial -> TCP, with  *)
(*     an in-memory deque mirrored into an SQLite table;                   *)
(*   - SinglePortHTTPForwarder (serial_forwarder_http.py): serial -> HTTP  *)
(*     POST, with a table of pending messages.                             *)
(*                                                                         *)
(* Bytes read from the serial device are numbered 1, 2, 3, ... in the      *)
(* order they are read, so that a payload is a sequence of byte numbers    *)
(* and every byte can be followed through the engine.                      *)
(***************************************************************************)
EXTENDS Integers, Sequences, FiniteSets, TLC

\* ------------------------------------------------------------------ bounds
\* number of bytes the serial device delivers in one behaviour
MaxBytes == 2
\* number of times the process is killed and restarted
MaxCrashes == 1
\* number of times "more than 30 days" pass
MaxMonths == 1
\* port_config['buffer_size'] of the modelled port (the deque's maxlen)
BufferSize == 2
\* chunks the HTTP engine reads from its serial device
MaxReads == 2
\* transactions of save_buffer that fail
MaxSaveFailures == 1
\* entries of config['ports'] in a configuration document
MaxPorts == 3
\* characters of the "data" string of a request to the relay
MaxHexLen == 3
\* the values time.time() takes in the HTTP engine's process
MaxWall == 1
\* errors the serial device raises while it is read
MaxReadErrors == 2
\* SinglePortForwarder objects a supervisor creates in its life
MaxEngines == 4

\* 'sent_timestamp': None
NoneTs == -1

\* 1 month = 30 days = 2,592,000 seconds
OneMonthSeconds == 2592000

\* 24 * 60 * 60
DaySeconds == 86400

\* port_config['send_delay'], in the unit of the model's clock: the age of
\* last_serial_data_time is counted up to it
SendDelay == 1

\* the threads of the HTTP engine: buffer_timeout_thread,
\* retry_pending_messages_thread, and the caller of start() and stop()
HttpThreads == {"timeout", "retry", "main"}

\* what a POST to the relay endpoint can come back with: 200 and bytes_sent
\* equal to the payload length, 200 and another bytes_sent, 200 and a body that
\* is not JSON, another status, an exception (timeout, connection refused)
Responses == {"200_ok", "200_mismatch", "200_nojson", "status_500", "exception"}

Threads == {"reader", "tcp", "cleanup"}

VARIABLES
    \* ---- SinglePortForwarder: fields of the object
    running,                  \* self.running
    serial_accumulator,       \* self.serial_accumulator (sequence of bytes)
    last_serial_data_time,    \* self.last_serial_data_time: NoneTs, or its age
    items,                    \* the message dicts alive in memory, by reference
    buffer,                   \* self.buffer (deque of references into items)
    tcp_connected,            \* self.tcp_connected
    tcp_socket,               \* self.tcp_socket: "None", "new", "open", "broken"
    tcp_state,                \* self.status['tcp_state']
    serial_accumulator_lock,  \* holder of self.serial_accumulator_lock, or "free"
    db_lock,                  \* holder of self.db_lock, or "free"
    status_lock,              \* holder of self.status_lock, or "free"
    gs_pc,                    \* where a caller of get_status() is
    \* ---- the SQLite file buffer_<port>.db (survives a kill)
    db_rows,                  \* rows with timestamp != PENDING_ACCUMULATOR, by id
    db_pending,               \* data of the PENDING_ACCUMULATOR rows, by id
    \* ---- positions and locals of the three worker threads
    pc,                       \* pc[t]: where thread t is
    data_to_send,             \* serial_reader_thread: data_to_send
    buffer_list,              \* save_buffer: buffer_list of the call made by t
    unsent_items,             \* flush_buffer: unsent_items, <<idx, item>> pairs
    fpos,                     \* flush_buffer: position of the for loop
    successfully_sent_indices,\* flush_buffer: successfully_sent_indices
    mark_pos,                 \* flush_buffer: indices the marking loop has done
    reader_stopping,          \* the reader has left its while loop
    stop_pc,                  \* where the caller of stop() is
    stop_buffer_list,         \* save_buffer: buffer_list of the call made by stop()
    serial_open,              \* self.serial_port is open
    serial_connected,         \* self.serial_connected
    last_error,               \* self.status['last_error']
    read_errors,              \* errors raised so far by reads of the device
    \* ---- the caller of start()
    start_result,             \* what the latest start() returned, or "none"
    lingering,                \* workers of an earlier start() that are alive
    \* ---- MultiPortForwarder, with this engine first in self.forwarders
    multi_stop_pc,            \* where the caller of MultiPortForwarder.stop() is
    other_running,            \* self.running of the engine after this one
    config_file,              \* config.json: [kind, ports], kind "json" if it parses
    config,                   \* MultiPortForwarder.config['ports'] (<<>> before __init__)
    forwarders,               \* self.forwarders: [name, engine] entries in key order
    engines,                  \* the engines the supervisor created: [port, running]
    start_pos,                \* entries of ports that start()'s loop has done
    multi_start_pc,           \* where the caller of MultiPortForwarder.start() is
    multi_start_result,       \* what MultiPortForwarder.start() returned, or "none"
    \* ---- tcp_forwarder_server: one request to POST /forward
    request,                  \* the JSON body and what the TCP target will do
    answer,                   \* the response, and what forward_data did for it
    \* ---- environment
    nread,                    \* bytes read from the serial device so far
    now,                      \* datetime.now(), in days
    crashes,                  \* kills of the process so far
    save_failures,            \* transactions of save_buffer that failed so far
    wire,                     \* the payloads the TCP peer has received so far
    wire_life,                \* ... since the process started: payload -> count
    \* ---- SinglePortHTTPForwarder: fields of the object
    http_running,             \* self.running
    http_buffer,              \* self.buffer (bytearray)
    last_data_time,           \* self.last_data_time is not None
    messages_sent,            \* self.status['messages_sent']
    sent_seen,                \* the self.status['messages_sent'] thread t has read
    sends_ok,                 \* POSTs answered 200 so far
    \* ---- the SQLite file of the HTTP engine
    pending_messages,         \* table pending_messages, rows in timestamp order
    next_id,                  \* the AUTOINCREMENT counter of the table
    \* ---- positions and locals of the HTTP engine's threads
    hpc,                      \* hpc[t]: where thread t is
    http_data_to_send,        \* send_buffered_data: data_to_send of thread t
    messages,                 \* messages of the pass thread t is making
    mpos,                     \* position of thread t's for loop
    response,                 \* _send_to_http: what the last POST came back with
    returned,                 \* _send_to_http: what the last call returned
    \* ---- environment of the HTTP engine
    hread,                    \* chunks read from the serial device so far
    wall_clock,               \* what time.time() returns now
    idle_checked,             \* the bytes buffer_timeout_thread's check found idle
    accepted                  \* id -> POSTs of it answered 200 with the full length

tcpvars == <<running, serial_accumulator, last_serial_data_time, items, buffer,
             tcp_connected, tcp_socket, tcp_state, serial_accumulator_lock, db_lock,
             status_lock, gs_pc,
             db_rows, db_pending, pc, data_to_send, buffer_list, unsent_items,
             fpos, successfully_sent_indices, mark_pos, reader_stopping, stop_pc,
             stop_buffer_list, serial_open, serial_connected, last_error,
             read_errors, nread, now, crashes, save_failures, wire, wire_life>>

httpvars == <<http_running, http_buffer, last_data_time, messages_sent,
              sent_seen, sends_ok,
              pending_messages, next_id, hpc, http_data_to_send, messages, mpos,
              response, returned, hread, wall_clock, idle_checked,
              accepted>>

callvars == <<start_result, lingering, multi_stop_pc, other_running>>

multivars == <<config_file, config, forwarders, engines, start_pos,
               multi_start_pc, multi_start_result>>

relayvars == <<request, answer>>

vars == <<tcpvars, httpvars, callvars, multivars, relayvars>>

\* ------------------------------------------------------------ pure helpers
Range(s) == {s[i] : i \in 1..Len(s)}

\* the bytes of a payload
BytesOf(data) == Range(data)

\* the last n elements of s (all of s when it has fewer)
LastN(s, n) == IF Len(s) <= n THEN s ELSE SubSeq(s, Len(s) - n + 1, Len(s))

\* an append that leaves a full deque as it is
DequeReject(q, x) == IF Len(q) >= BufferSize THEN q ELSE Append(q, x)

\* deque(maxlen=buffer_size).append: a full deque drops its oldest item
DequeAppend(q, x) == LastN(Append(q, x), BufferSize)

\* the dict add_to_buffer appends
NewMessage(data) ==
    [data |-> data, timestamp |-> now, sent |-> 0, sent_timestamp |-> NoneTs]

RECURSIVE SelectIdx(_, _, _, _)
SelectIdx(q, heap, i, acc) ==
    IF i > Len(q) THEN acc
    ELSE SelectIdx(q, heap, i + 1,
                   IF heap[q[i]].sent = 0 THEN Append(acc, <<i, q[i]>>) ELSE acc)

\* [(idx, item) for idx, item in enumerate(self.buffer) if item.get('sent') == 0]
\* (idx is 0-based in the code, 1-based here; item is a reference to the dict)
UnsentSnapshot(q, heap) == SelectIdx(q, heap, 1, <<>>)

\* the comparison of cleanup_old_buffer with >= in place of >
OlderThanOneMonthInclusive(m) ==
    (now - m.sent_timestamp) * DaySeconds >= OneMonthSeconds

\* age_seconds > 2592000 for a message marked sent at sent_timestamp
OlderThanOneMonth(m) == (now - m.sent_timestamp) * DaySeconds > OneMonthSeconds

\* the test under which cleanup_old_buffer drops an item
IsOldSent(m) == m.sent = 1 /\ m.sent_timestamp # NoneTs /\ OlderThanOneMonth(m)

RECURSIVE KeepItems(_, _)
KeepItems(q, heap) ==
    IF q = <<>> THEN <<>>
    ELSE IF IsOldSent(heap[Head(q)]) THEN KeepItems(Tail(q), heap)
         ELSE <<Head(q)>> \o KeepItems(Tail(q), heap)

\* cleanup_old_buffer: the deque afterwards
CleanedBuffer(q, heap) == KeepItems(q, heap)

\* flush_buffer step 3: self.buffer[idx]['sent'] = 1; the dict now at the
\* recorded index changes (idx is 1-based here)
MarkSent(q, heap, idx) ==
    [heap EXCEPT ![q[idx]] = [heap[q[idx]] EXCEPT !.sent = 1]]

\* flush_buffer step 3: self.buffer[idx]['sent_timestamp'] = sent_timestamp
MarkSentTimestamp(q, heap, idx) ==
    [heap EXCEPT ![q[idx]] = [heap[q[idx]] EXCEPT !.sent_timestamp = now]]

\* the PENDING_ACCUMULATOR rows left when nothing is deleted
KeepPending(rows) == rows

\* save_pending_data: DELETE FROM buffer WHERE timestamp = "PENDING_ACCUMULATOR"
DeletePending(rows) == <<>>

\* save_pending_data: the PENDING_ACCUMULATOR rows after its transaction, which
\* deletes the existing ones and inserts the accumulator if it holds data
SavedPending(rows, acc) ==
    IF acc # <<>> THEN Append(DeletePending(rows), acc) ELSE DeletePending(rows)

\* load_pending_data: fetchone() of the PENDING_ACCUMULATOR rows
LoadedPending(rows) == IF rows = <<>> THEN <<>> ELSE rows[1]

\* a DELETE FROM buffer without a WHERE clause leaves no pending row
AfterDeleteAll(pending) == <<>>

\* save_buffer: DELETE FROM buffer WHERE timestamp != "PENDING_ACCUMULATOR"
\* leaves the PENDING_ACCUMULATOR rows, and the INSERTs add none
AfterDeleteRegular(pending) == pending

\* save_pending_data: DELETE FROM buffer WHERE timestamp =
\* "PENDING_ACCUMULATOR" leaves the regular rows, and the INSERT adds none
AfterDeletePending(rows) == rows

\* a save that inserts only the messages not yet sent
UnsentRowsOf(bl, heap) ==
    LET unsent == SelectSeq(bl, LAMBDA o : heap[o].sent = 0)
    IN  [i \in 1..Len(unsent) |-> heap[unsent[i]]]

\* save_buffer: the rows inserted for a snapshot (the dicts are read at insert)
RowsOf(bl, heap) == [i \in 1..Len(bl) |-> heap[bl[i]]]

\* load_buffer: every row ORDER BY id is appended to the cleared deque, which
\* keeps the newest buffer_size of them
LoadedItems(rows) == LastN(rows, BufferSize)


\* --------------------------------------------------------- construction
\* SinglePortForwarder.__init__ on a database file holding rows / pending:
\* init_db, load_buffer, load_pending_data; the flags and locks as constructed
Constructed(rows, pending) ==
    /\ running = FALSE
    /\ items = LoadedItems(rows)
    /\ buffer = [i \in 1..Len(LoadedItems(rows)) |-> i]
    /\ serial_accumulator = pending
    /\ last_serial_data_time = (IF pending # <<>> THEN 0 ELSE NoneTs)
    /\ tcp_connected = FALSE
    /\ tcp_socket = "None"
    /\ tcp_state = "disconnected"
    /\ serial_accumulator_lock = "free"
    /\ db_lock = "free"
    /\ pc = [t \in Threads |-> "off"]
    /\ data_to_send = <<>>
    /\ buffer_list = [t \in Threads |-> <<>>]
    /\ unsent_items = <<>>
    /\ fpos = 0
    /\ successfully_sent_indices = <<>>
    /\ mark_pos = 0
    /\ reader_stopping = FALSE
    /\ status_lock = "free"
    /\ gs_pc = "idle"
    /\ stop_pc = "idle"
    /\ stop_buffer_list = <<>>
    /\ serial_open = FALSE
    /\ serial_connected = FALSE
    /\ last_error = "None"
    /\ start_result = "none"
    /\ lingering = {}

\* the names a configuration document gives its ports
PortNames == {"port1", "port2", "port3"}

\* the 'ports' lists of the documents that parse
PortLists == UNION {[1..n -> PortNames] : n \in 0..MaxPorts}

\* what config.json can be: no file, text that is not JSON, or a document
ConfigFiles ==
    {[kind |-> k, ports |-> <<>>] : k \in {"missing", "invalid"}}
        \cup {[kind |-> "json", ports |-> p] : p \in PortLists}

\* get_default_config(): a single port named port1
DefaultConfig == <<"port1">>

\* MultiPortForwarder.load_config: the document's ports; the defaults when the
\* file is not found or does not parse
LoadConfig(file) == IF file.kind = "json" THEN file.ports ELSE DefaultConfig

\* the characters a "data" string is made of: two hex digits, a letter that is
\* none, and a space
HexChars == {"4", "a", "g", " "}

\* int(c, 16) of a hex digit
HexValue(c) == IF c = "4" THEN 4 ELSE 10

\* c is a hex digit
IsHexDigit(c) == c \in {"4", "a"}

\* the strings of up to MaxHexLen characters
HexTexts == UNION {[1..n -> HexChars] : n \in 0..MaxHexLen}

\* bytes.fromhex(text): whitespace is skipped before each byte, then two hex
\* digits must follow; ok = FALSE stands for ValueError
RECURSIVE FromHex(_)
FromHex(text) ==
    IF text = <<>> THEN [ok |-> TRUE, bytes |-> <<>>]
    ELSE IF Head(text) = " " THEN FromHex(Tail(text))
    ELSE IF Len(text) >= 2 /\ IsHexDigit(text[1]) /\ IsHexDigit(text[2])
    THEN LET rest == FromHex(Tail(Tail(text)))
         IN  [ok |-> rest.ok,
              bytes |-> <<16 * HexValue(text[1]) + HexValue(text[2])>> \o rest.bytes]
    ELSE [ok |-> FALSE, bytes |-> <<>>]

\* the "data" member of the body: absent, a string, or a JSON number
DataFields ==
    {[kind |-> "absent", text |-> <<>>], [kind |-> "number", text |-> <<>>]}
        \cup {[kind |-> "text", text |-> x] : x \in HexTexts}

\* a request: the body's data and tcp_port (0: absent), and how the target
\* answers a connect and a sendall
Requests ==
    [data : DataFields, tcp_port : {0, 8090},
     target : {"ok", "refused", "timeout", "send_error"}]

\* the response and the effects when nothing has been answered
NoAnswer == [status |-> 0, bytes_sent |-> 0, connected |-> FALSE, written |-> FALSE]

\* "if not hex_data": the member is missing or an empty string
NoData(req) == req.data.kind = "absent" \/ (req.data.kind = "text" /\ req.data.text = <<>>)

\* forward_data: 400 for a missing field or a ValueError of bytes.fromhex; a
\* number raises TypeError there, which the outer except turns into 500;
\* else TCPForwarder.send() connects and sends, 200 if it returns True and 500
\* if not
ForwardData(req) ==
    IF NoData(req) \/ req.tcp_port = 0
    THEN [NoAnswer EXCEPT !.status = 400]
    ELSE IF req.data.kind = "number"
    THEN [NoAnswer EXCEPT !.status = 500]
    ELSE IF ~FromHex(req.data.text).ok
    THEN [NoAnswer EXCEPT !.status = 400]
    ELSE IF req.target = "ok"
    THEN [status |-> 200, bytes_sent |-> Len(FromHex(req.data.text).bytes),
          connected |-> TRUE, written |-> TRUE]
    ELSE [status |-> 500, bytes_sent |-> 0,
          connected |-> req.target = "send_error", written |-> FALSE]

\* the relay before a request has come
RelayFresh ==
    /\ request = [data |-> [kind |-> "absent", text |-> <<>>], tcp_port |-> 0,
                  target |-> "ok"]
    /\ answer = NoAnswer

\* MultiPortForwarder before __init__ has run
SupervisorFresh ==
    /\ config = <<>>
    /\ forwarders = <<>>
    /\ engines = <<>>
    /\ start_pos = 0
    /\ multi_start_pc = "idle"
    /\ multi_start_result = "none"

\* everything outside the object, at the start of a behaviour
FreshEnvironment ==
    /\ SupervisorFresh
    /\ config_file = [kind |-> "json", ports |-> DefaultConfig]
    /\ RelayFresh
    /\ db_pending = <<>>
    /\ nread = 0
    /\ now = 0
    /\ crashes = 0
    /\ save_failures = 0
    /\ read_errors = 0
    /\ wire = {}
    /\ wire_life = <<>>
    /\ multi_stop_pc = "idle"
    /\ other_running = TRUE

\* SinglePortHTTPForwarder.__init__ with no database file yet
HttpConstructed ==
    /\ http_running = FALSE
    /\ http_buffer = <<>>
    /\ last_data_time = FALSE
    /\ messages_sent = 0
    /\ sent_seen = [t \in HttpThreads |-> 0]
    /\ sends_ok = 0
    /\ pending_messages = <<>>
    /\ next_id = 1
    /\ hpc = [t \in HttpThreads |-> "off"]
    /\ http_data_to_send = [t \in HttpThreads |-> <<>>]
    /\ messages = [t \in HttpThreads |-> <<>>]
    /\ mpos = [t \in HttpThreads |-> 0]
    /\ response = "none"
    /\ returned = FALSE
    /\ hread = 0
    /\ wall_clock = MaxWall
    /\ idle_checked = <<>>
    /\ accepted = [i \in 1..MaxReads |-> 0]

\* first start of the program: no database file yet
Init ==
    /\ Constructed(<<>>, <<>>)
    /\ db_rows = <<>>
    /\ FreshEnvironment
    /\ HttpConstructed

\* k messages that earlier runs emitted while the TCP peer was down and that
\* were never delivered: what k runs, 31 days ago, left in the table when each
\* read one byte, buffered it unsent (send_data's else branch) and was killed.  Their
\* bytes were read before this behaviour and are numbered 1-k .. 0.
StoredUnsent(k) ==
    [i \in 1..k |-> [data |-> <<i - k>>, timestamp |-> 0 - 31, sent |-> 0,
                     sent_timestamp |-> NoneTs]]

\* start of the program on such a database file
InitStored ==
    /\ \E k \in 1..BufferSize :
          /\ Constructed(StoredUnsent(k), <<>>)
          /\ db_rows = StoredUnsent(k)
    /\ FreshEnvironment
    /\ HttpConstructed

\* start of the program on a database file that may hold one row more than
\* buffer_size, written when buffer_size was configured larger
InitOverfull ==
    /\ \E k \in 1..(BufferSize + 1) :
          /\ Constructed(StoredUnsent(k), <<>>)
          /\ db_rows = StoredUnsent(k)
    /\ FreshEnvironment
    /\ HttpConstructed

\* start of the program with any of the configuration files
InitConfig ==
    /\ Constructed(<<>>, <<>>)
    /\ db_rows = <<>>
    /\ db_pending = <<>>
    /\ nread = 0
    /\ now = 0
    /\ crashes = 0
    /\ save_failures = 0
    /\ read_errors = 0
    /\ wire = {}
    /\ wire_life = <<>>
    /\ multi_stop_pc = "idle"
    /\ other_running = TRUE
    /\ SupervisorFresh
    /\ config_file \in ConfigFiles
    /\ RelayFresh
    /\ HttpConstructed

\* the relay with any one request arriving
InitRelay ==
    /\ Constructed(<<>>, <<>>)
    /\ db_rows = <<>>
    /\ db_pending = <<>>
    /\ nread = 0
    /\ now = 0
    /\ crashes = 0
    /\ save_failures = 0
    /\ read_errors = 0
    /\ wire = {}
    /\ wire_life = <<>>
    /\ multi_stop_pc = "idle"
    /\ other_running = TRUE
    /\ SupervisorFresh
    /\ config_file = [kind |-> "json", ports |-> DefaultConfig]
    /\ request \in Requests
    /\ answer = NoAnswer
    /\ HttpConstructed

\* the ages in days of the sent messages an old database file holds
SentAges == {29, 30, 31}

\* k messages that earlier runs left in the table: age[i] = 0 for one that was
\* never delivered, else the number of days since flush_buffer marked it sent
StoredAged(k, age) ==
    [i \in 1..k |->
        IF age[i] = 0
        THEN [data |-> <<i - k>>, timestamp |-> 0 - 31, sent |-> 0,
              sent_timestamp |-> NoneTs]
        ELSE [data |-> <<i - k>>, timestamp |-> 0 - 31, sent |-> 1,
              sent_timestamp |-> 0 - age[i]]]

\* start of the program on such a database file
InitAged ==
    /\ \E k \in 0..BufferSize :
          \E age \in [1..k -> {0} \cup SentAges] :
             /\ Constructed(StoredAged(k, age), <<>>)
             /\ db_rows = StoredAged(k, age)
    /\ FreshEnvironment
    /\ HttpConstructed

\* start(): refuses when running, else sets the flag and starts the threads;
\* the reader's first connect_serial opens the port
Start ==
    /\ ~running
    /\ \A t \in Threads : pc[t] = "off"
    /\ running' = TRUE
    /\ pc' = [t \in Threads |-> "loop"]
    /\ serial_open' = TRUE
    /\ serial_connected' = TRUE
    /\ start_result' = "True"
    /\ UNCHANGED <<serial_accumulator, last_serial_data_time, items, buffer,
                   tcp_connected, tcp_socket, tcp_state, serial_accumulator_lock,
                   db_lock, status_lock, gs_pc, db_rows, db_pending,
                   data_to_send, buffer_list, unsent_items, fpos,
                   successfully_sent_indices, mark_pos, reader_stopping, stop_pc,
                   stop_buffer_list, last_error, read_errors, lingering,
                   multi_stop_pc, other_running, nread, now, crashes,
                   save_failures, wire, wire_life, httpvars, multivars, relayvars>>

\* self.buffer_lock is free: every holder but flush_buffer's marking loop takes
\* and releases it within one step
BufferLockFree ==
    /\ ~(pc["tcp"] = "fl_mark_ts" \/ (pc["tcp"] = "fl_mark" /\ mark_pos > 0))
    /\ pc["reader"] # "sd_count"

\* ------------------------------------------------------------- save_buffer
\* save_buffer, first half: buffer_list = list(self.buffer) under buffer_lock
SaveBufferSnapshot(t, from, to) ==
    /\ pc[t] = from
    /\ BufferLockFree
    /\ buffer_list' = [buffer_list EXCEPT ![t] = buffer]
    /\ pc' = [pc EXCEPT ![t] = to]

\* save_buffer, second half, under db_lock: one transaction that deletes the
\* regular rows and inserts the snapshot's dicts as they are now
SaveBufferWrite(t, from, to) ==
    /\ pc[t] = from
    /\ db_lock = "free"
    /\ db_rows' = RowsOf(buffer_list[t], items)
    /\ db_pending' = AfterDeleteRegular(db_pending)
    /\ buffer_list' = [buffer_list EXCEPT ![t] = <<>>]
    /\ pc' = [pc EXCEPT ![t] = to]

\* the regular rows when the transaction stops after its DELETE
HalfWrittenRows(rows) == <<>>

\* save_buffer, except branch: cursor.execute('ROLLBACK') gives back the rows
\* the transaction found
RolledBackRows(rows) == rows

\* save_buffer, second half, when a statement of the transaction raises: the
\* transaction is rolled back, the error logged and swallowed
SaveBufferFails(t, from, to) ==
    /\ pc[t] = from
    /\ db_lock = "free"
    /\ save_failures < MaxSaveFailures
    /\ save_failures' = save_failures + 1
    /\ db_rows' = RolledBackRows(db_rows)
    /\ buffer_list' = [buffer_list EXCEPT ![t] = <<>>]
    /\ pc' = [pc EXCEPT ![t] = to]

\* what one sendall on the current socket does: TRUE iff it returns normally
SendallSucceeds == tcp_socket = "open"

\* how often the peer has received this payload since the process started
TimesReceived(data) == IF data \in DOMAIN wire_life THEN wire_life[data] ELSE 0

\* wire_life after the peer has received data once more
Received(data) ==
    [d \in DOMAIN wire_life \cup {data} |->
        IF d = data THEN TimesReceived(data) + 1 ELSE wire_life[d]]

\* ------------------------------------------------------ serial_reader_thread
\* in_waiting > 0: read a chunk, extend the accumulator, stamp the time; when
\* 2 s have passed since last_pending_save, go on to save_pending_data
ReaderRead ==
    /\ pc["reader"] = "loop"
    /\ running
    /\ serial_connected
    /\ nread < MaxBytes
    /\ serial_accumulator_lock = "free"
    /\ nread' = nread + 1
    /\ serial_accumulator' = Append(serial_accumulator, nread + 1)
    /\ last_serial_data_time' = 0
    /\ \E due \in BOOLEAN :
          pc' = [pc EXCEPT !["reader"] = IF due THEN "spd_db" ELSE "loop"]
    /\ UNCHANGED <<running, items, buffer, tcp_connected, tcp_socket, tcp_state,
                   serial_accumulator_lock, db_lock, status_lock, gs_pc, db_rows,
                   db_pending, data_to_send, buffer_list, unsent_items, fpos,
                   successfully_sent_indices, mark_pos, reader_stopping, stop_pc,
                   stop_buffer_list, serial_open, serial_connected, last_error,
                   read_errors, now, crashes, save_failures, wire, wire_life,
                   httpvars, callvars, multivars, relayvars>>

\* ReaderIdleEmit without the comparison with send_delay: the accumulator is
\* emitted as soon as it is non-empty
ReaderIdleEmitNoDelay ==
    /\ pc["reader"] = "loop"
    /\ running
    /\ serial_connected
    /\ serial_accumulator_lock = "free"
    /\ serial_accumulator # <<>>
    /\ last_serial_data_time # NoneTs
    /\ serial_accumulator_lock' = "reader"
    /\ data_to_send' = serial_accumulator
    /\ pc' = [pc EXCEPT !["reader"] = "send_data"]
    /\ UNCHANGED <<running, serial_accumulator, last_serial_data_time, items,
                   buffer, tcp_connected, tcp_socket, tcp_state, db_lock,
                   status_lock, gs_pc, db_rows, db_pending, buffer_list,
                   unsent_items, fpos, successfully_sent_indices, mark_pos,
                   reader_stopping, stop_pc, stop_buffer_list, serial_open,
                   serial_connected, last_error, read_errors, nread, now,
                   crashes, save_failures, wire, wire_life, httpvars, callvars,
                   multivars, relayvars>>

\* nothing waiting, the accumulator is non-empty and send_delay has passed
\* since last_serial_data_time: take the lock and the bytes, call send_data
ReaderIdleEmit ==
    /\ pc["reader"] = "loop"
    /\ running
    /\ serial_connected
    /\ serial_accumulator_lock = "free"
    /\ serial_accumulator # <<>>
    /\ last_serial_data_time # NoneTs
    /\ last_serial_data_time >= SendDelay
    /\ serial_accumulator_lock' = "reader"
    /\ data_to_send' = serial_accumulator
    /\ pc' = [pc EXCEPT !["reader"] = "send_data"]
    /\ UNCHANGED <<running, serial_accumulator, last_serial_data_time, items,
                   buffer, tcp_connected, tcp_socket, tcp_state, db_lock,
                   status_lock, gs_pc, db_rows, db_pending, buffer_list,
                   unsent_items, fpos, successfully_sent_indices, mark_pos,
                   reader_stopping, stop_pc, stop_buffer_list, serial_open,
                   serial_connected, last_error, read_errors, nread, now,
                   crashes, save_failures, wire, wire_life, httpvars, callvars,
                   multivars, relayvars>>

\* send_data: if self.tcp_connected and self.tcp_socket
SendDataTest ==
    /\ pc["reader"] = "send_data"
    /\ pc' = [pc EXCEPT !["reader"] =
                IF tcp_connected /\ tcp_socket # "None" THEN "sd_sendall"
                ELSE "sd_add"]
    /\ UNCHANGED <<running, serial_accumulator, last_serial_data_time, items,
                   buffer, tcp_connected, tcp_socket, tcp_state,
                   serial_accumulator_lock, db_lock, status_lock, gs_pc, db_rows,
                   db_pending, data_to_send, buffer_list, unsent_items, fpos,
                   successfully_sent_indices, mark_pos, reader_stopping, stop_pc,
                   stop_buffer_list, serial_open, serial_connected, last_error,
                   read_errors, nread, now, crashes, save_failures, wire,
                   wire_life, httpvars, callvars, multivars, relayvars>>

\* send_data: self.tcp_socket.sendall(data) and return True; or, when sendall
\* raises, the except branch up to self.tcp_connected = False
SendDataSendall ==
    /\ pc["reader"] = "sd_sendall"
    /\ IF SendallSucceeds
       THEN /\ wire' = wire \cup {data_to_send}
            /\ wire_life' = Received(data_to_send)
            /\ pc' = [pc EXCEPT !["reader"] = "emit_clear"]
            /\ UNCHANGED tcp_connected
       ELSE /\ tcp_connected' = FALSE
            /\ pc' = [pc EXCEPT !["reader"] = "sd_close"]
            /\ UNCHANGED <<wire, wire_life>>
    /\ UNCHANGED <<running, serial_accumulator, last_serial_data_time, items,
                   buffer, tcp_socket, tcp_state, serial_accumulator_lock,
                   db_lock, status_lock, gs_pc, db_rows, db_pending,
                   data_to_send, buffer_list, unsent_items, fpos,
                   successfully_sent_indices, mark_pos, reader_stopping, stop_pc,
                   stop_buffer_list, serial_open, serial_connected, last_error,
                   read_errors, nread, now, crashes, save_failures, httpvars,
                   callvars, multivars, relayvars>>

\* send_data, except branch: self.tcp_socket.close(); self.tcp_socket = None
SendDataClose ==
    /\ pc["reader"] = "sd_close"
    /\ tcp_socket' = "None"
    /\ pc' = [pc EXCEPT !["reader"] = "sd_add"]
    /\ UNCHANGED <<running, serial_accumulator, last_serial_data_time, items,
                   buffer, tcp_connected, tcp_state, serial_accumulator_lock,
                   db_lock, status_lock, gs_pc, db_rows, db_pending,
                   data_to_send, buffer_list, unsent_items, fpos,
                   successfully_sent_indices, mark_pos, reader_stopping, stop_pc,
                   stop_buffer_list, serial_open, serial_connected, last_error,
                   read_errors, nread, now, crashes, save_failures, wire,
                   wire_life, httpvars, callvars, multivars, relayvars>>

\* add_to_buffer: append a new unsent dict to the deque under buffer_lock
AddToBuffer ==
    /\ pc["reader"] = "sd_add"
    /\ BufferLockFree
    /\ items' = Append(items, NewMessage(data_to_send))
    /\ buffer' = DequeAppend(buffer, Len(items) + 1)
    /\ pc' = [pc EXCEPT !["reader"] = "sd_count"]
    /\ UNCHANGED <<running, serial_accumulator, last_serial_data_time,
                   tcp_connected, tcp_socket, tcp_state, serial_accumulator_lock,
                   db_lock, status_lock, gs_pc, db_rows, db_pending,
                   data_to_send, buffer_list, unsent_items, fpos,
                   successfully_sent_indices, mark_pos, reader_stopping, stop_pc,
                   stop_buffer_list, serial_open, serial_connected, last_error,
                   read_errors, nread, now, crashes, save_failures, wire,
                   wire_life, httpvars, callvars, multivars, relayvars>>

\* serial_reader_thread: in_waiting or read raises.  A serial.SerialException
\* marks the port disconnected and records the error; any other exception
\* (an OSError of in_waiting on a device that is gone) is logged only
SerialReadError ==
    /\ pc["reader"] = "loop"
    /\ running
    /\ serial_connected
    /\ read_errors < MaxReadErrors
    /\ read_errors' = read_errors + 1
    /\ \E e \in {"SerialException", "OSError"} :
          IF e = "SerialException"
          THEN /\ serial_connected' = FALSE
               /\ last_error' = "Serial read error"
          ELSE UNCHANGED <<serial_connected, last_error>>
    /\ UNCHANGED <<running, serial_accumulator, last_serial_data_time, items,
                   buffer, tcp_connected, tcp_socket, tcp_state,
                   serial_accumulator_lock, db_lock, status_lock, gs_pc, db_rows,
                   db_pending, pc, data_to_send, buffer_list, unsent_items, fpos,
                   successfully_sent_indices, mark_pos, reader_stopping, stop_pc,
                   stop_buffer_list, serial_open, nread, now, crashes,
                   save_failures, wire, wire_life, httpvars, callvars, multivars,
                   relayvars>>

\* serial_reader_thread: if not self.serial_connected: connect_serial(), which
\* opens the port again or records why it could not
ConnectSerial ==
    /\ pc["reader"] = "loop"
    /\ running
    /\ ~serial_connected
    /\ \E ok \in BOOLEAN :
          IF ok
          THEN /\ serial_connected' = TRUE
               /\ serial_open' = TRUE
               /\ UNCHANGED last_error
          ELSE /\ last_error' = "Serial connection error"
               /\ UNCHANGED <<serial_connected, serial_open>>
    /\ UNCHANGED <<running, serial_accumulator, last_serial_data_time, items,
                   buffer, tcp_connected, tcp_socket, tcp_state,
                   serial_accumulator_lock, db_lock, status_lock, gs_pc, db_rows,
                   db_pending, pc, data_to_send, buffer_list, unsent_items, fpos,
                   successfully_sent_indices, mark_pos, reader_stopping, stop_pc,
                   stop_buffer_list, read_errors, nread, now, crashes,
                   save_failures, wire, wire_life, httpvars, callvars, multivars,
                   relayvars>>

\* add_to_buffer, still under buffer_lock: update_status('messages_buffered',
\* ...) takes status_lock, stores and releases it; then buffer_lock is released
AddToBufferUpdateStatus ==
    /\ pc["reader"] = "sd_count"
    /\ status_lock = "free"
    /\ pc' = [pc EXCEPT !["reader"] = "sd_snap"]
    /\ UNCHANGED <<running, serial_accumulator, last_serial_data_time, items,
                   buffer, tcp_connected, tcp_socket, tcp_state,
                   serial_accumulator_lock, db_lock, status_lock, gs_pc, db_rows,
                   db_pending, data_to_send, buffer_list, unsent_items, fpos,
                   successfully_sent_indices, mark_pos, reader_stopping, stop_pc,
                   stop_buffer_list, serial_open, serial_connected, last_error,
                   read_errors, nread, now, crashes, save_failures, wire,
                   wire_life, httpvars, callvars, multivars, relayvars>>

\* get_status: with self.status_lock
GetStatusBegin ==
    /\ gs_pc = "idle"
    /\ running
    /\ status_lock = "free"
    /\ status_lock' = "status"
    /\ gs_pc' = "gs_buffer"
    /\ UNCHANGED <<running, serial_accumulator, last_serial_data_time, items,
                   buffer, tcp_connected, tcp_socket, tcp_state,
                   serial_accumulator_lock, db_lock, db_rows, db_pending, pc,
                   data_to_send, buffer_list, unsent_items, fpos,
                   successfully_sent_indices, mark_pos, reader_stopping, stop_pc,
                   stop_buffer_list, serial_open, serial_connected, last_error,
                   read_errors, nread, now, crashes, save_failures, wire,
                   wire_life, httpvars, callvars, multivars, relayvars>>

\* get_status: with self.buffer_lock: status['buffer_size'] = len(self.buffer);
\* return self.status.copy(), both locks released
GetStatusReturn ==
    /\ gs_pc = "gs_buffer"
    /\ BufferLockFree
    /\ status_lock' = "free"
    /\ gs_pc' = "idle"
    /\ UNCHANGED <<running, serial_accumulator, last_serial_data_time, items,
                   buffer, tcp_connected, tcp_socket, tcp_state,
                   serial_accumulator_lock, db_lock, db_rows, db_pending, pc,
                   data_to_send, buffer_list, unsent_items, fpos,
                   successfully_sent_indices, mark_pos, reader_stopping, stop_pc,
                   stop_buffer_list, serial_open, serial_connected, last_error,
                   read_errors, nread, now, crashes, save_failures, wire,
                   wire_life, httpvars, callvars, multivars, relayvars>>

\* add_to_buffer: self.save_buffer()
AddToBufferSnapshot ==
    /\ SaveBufferSnapshot("reader", "sd_snap", "sd_write")
    /\ UNCHANGED <<running, serial_accumulator, last_serial_data_time, items,
                   buffer, tcp_connected, tcp_socket, tcp_state,
                   serial_accumulator_lock, db_lock, status_lock, gs_pc, db_rows,
                   db_pending, data_to_send, unsent_items, fpos,
                   successfully_sent_indices, mark_pos, reader_stopping, stop_pc,
                   stop_buffer_list, serial_open, serial_connected, last_error,
                   read_errors, nread, now, crashes, save_failures, wire,
                   wire_life, httpvars, callvars, multivars, relayvars>>

AddToBufferWriteFails ==
    /\ SaveBufferFails("reader", "sd_write", "emit_clear")
    /\ UNCHANGED <<running, serial_accumulator, last_serial_data_time, items,
                   buffer, tcp_connected, tcp_socket, tcp_state,
                   serial_accumulator_lock, db_lock, status_lock, gs_pc,
                   db_pending, data_to_send, unsent_items, fpos,
                   successfully_sent_indices, mark_pos, reader_stopping, stop_pc,
                   stop_buffer_list, serial_open, serial_connected, last_error,
                   read_errors, nread, now, crashes, wire, wire_life, httpvars,
                   callvars, multivars, relayvars>>

AddToBufferWrite ==
    /\ SaveBufferWrite("reader", "sd_write", "emit_clear")
    /\ UNCHANGED <<running, serial_accumulator, last_serial_data_time, items,
                   buffer, tcp_connected, tcp_socket, tcp_state,
                   serial_accumulator_lock, db_lock, status_lock, gs_pc,
                   data_to_send, unsent_items, fpos, successfully_sent_indices,
                   mark_pos, reader_stopping, stop_pc, stop_buffer_list,
                   serial_open, serial_connected, last_error, read_errors, nread,
                   now, crashes, save_failures, wire, wire_life, httpvars,
                   callvars, multivars, relayvars>>

\* in the loop, both branches after send_data: self.serial_accumulator.clear();
\* self.last_serial_data_time = None; then self.save_pending_data(), still
\* inside "with self.serial_accumulator_lock".  After the loop: clear() only,
\* the with block ends, and save_pending_data() follows outside it
EmitClear ==
    /\ pc["reader"] = "emit_clear"
    /\ serial_accumulator' = <<>>
    /\ last_serial_data_time' =
          IF reader_stopping THEN last_serial_data_time ELSE NoneTs
    /\ serial_accumulator_lock' =
          IF reader_stopping THEN "free" ELSE serial_accumulator_lock
    /\ data_to_send' = <<>>
    /\ pc' = [pc EXCEPT !["reader"] = "spd_db"]
    /\ UNCHANGED <<running, items, buffer, tcp_connected, tcp_socket, tcp_state,
                   db_lock, status_lock, gs_pc, db_rows, db_pending, buffer_list,
                   unsent_items, fpos, successfully_sent_indices, mark_pos,
                   reader_stopping, stop_pc, stop_buffer_list, serial_open,
                   serial_connected, last_error, read_errors, nread, now,
                   crashes, save_failures, wire, wire_life, httpvars, callvars,
                   multivars, relayvars>>

\* save_pending_data: with self.db_lock; connect; DELETE the pending row (the
\* delete is not committed yet)
SavePendingDataBegin ==
    /\ pc["reader"] = "spd_db"
    /\ db_lock = "free"
    /\ db_lock' = "reader"
    /\ pc' = [pc EXCEPT !["reader"] = "spd_acc"]
    /\ UNCHANGED <<running, serial_accumulator, last_serial_data_time, items,
                   buffer, tcp_connected, tcp_socket, tcp_state,
                   serial_accumulator_lock, status_lock, gs_pc, db_rows,
                   db_pending, data_to_send, buffer_list, unsent_items, fpos,
                   successfully_sent_indices, mark_pos, reader_stopping, stop_pc,
                   stop_buffer_list, serial_open, serial_connected, last_error,
                   read_errors, nread, now, crashes, save_failures, wire,
                   wire_life, httpvars, callvars, multivars, relayvars>>

\* save_pending_data: with self.serial_accumulator_lock (a threading.Lock, not
\* re-entrant): read the accumulator, insert it if non-empty, commit, close,
\* release db_lock; back in the reader's loop the accumulator lock is free
SavePendingDataCommit ==
    /\ pc["reader"] = "spd_acc"
    /\ serial_accumulator_lock = "free"
    /\ db_pending' = SavedPending(db_pending, serial_accumulator)
    /\ db_rows' = AfterDeletePending(db_rows)
    /\ db_lock' = "free"
    /\ pc' = [pc EXCEPT !["reader"] = IF reader_stopping THEN "done" ELSE "loop"]
    /\ UNCHANGED <<running, serial_accumulator, last_serial_data_time, items,
                   buffer, tcp_connected, tcp_socket, tcp_state,
                   serial_accumulator_lock, status_lock, gs_pc, data_to_send,
                   buffer_list, unsent_items, fpos, successfully_sent_indices,
                   mark_pos, reader_stopping, stop_pc, stop_buffer_list,
                   serial_open, serial_connected, last_error, read_errors, nread,
                   now, crashes, save_failures, wire, wire_life, httpvars,
                   callvars, multivars, relayvars>>


\* ------------------------------------------------------ tcp_reconnect_thread
\* the MSG_PEEK probe raises (timeout after 0.5 s without data from the peer,
\* peer closed, socket broken or already closed): self.tcp_connected = False
ProbeLost ==
    /\ pc["tcp"] = "loop"
    /\ running
    /\ tcp_connected /\ tcp_socket # "None"
    /\ tcp_connected' = FALSE
    /\ pc' = [pc EXCEPT !["tcp"] = "probe_close"]
    /\ UNCHANGED <<running, serial_accumulator, last_serial_data_time, items,
                   buffer, tcp_socket, tcp_state, serial_accumulator_lock,
                   db_lock, status_lock, gs_pc, db_rows, db_pending,
                   data_to_send, buffer_list, unsent_items, fpos,
                   successfully_sent_indices, mark_pos, reader_stopping, stop_pc,
                   stop_buffer_list, serial_open, serial_connected, last_error,
                   read_errors, nread, now, crashes, save_failures, wire,
                   wire_life, httpvars, callvars, multivars, relayvars>>

\* after a lost probe: self.tcp_socket.close(); self.tcp_socket = None
ProbeClose ==
    /\ pc["tcp"] = "probe_close"
    /\ tcp_socket' = "None"
    /\ pc' = [pc EXCEPT !["tcp"] = "loop"]
    /\ UNCHANGED <<running, serial_accumulator, last_serial_data_time, items,
                   buffer, tcp_connected, tcp_state, serial_accumulator_lock,
                   db_lock, status_lock, gs_pc, db_rows, db_pending,
                   data_to_send, buffer_list, unsent_items, fpos,
                   successfully_sent_indices, mark_pos, reader_stopping, stop_pc,
                   stop_buffer_list, serial_open, serial_connected, last_error,
                   read_errors, nread, now, crashes, save_failures, wire,
                   wire_life, httpvars, callvars, multivars, relayvars>>

\* if not self.tcp_connected and self.running: connect_tcp() up to the connect
\* call: tcp_state = 'connecting', the old socket is closed and a new one
\* assigned to self.tcp_socket
ConnectTcpBegin ==
    /\ pc["tcp"] = "loop"
    /\ running
    /\ ~tcp_connected
    /\ tcp_state' = "connecting"
    /\ tcp_socket' = "new"
    /\ pc' = [pc EXCEPT !["tcp"] = "connect"]
    /\ UNCHANGED <<running, serial_accumulator, last_serial_data_time, items,
                   buffer, tcp_connected, serial_accumulator_lock, db_lock,
                   status_lock, gs_pc, db_rows, db_pending, data_to_send,
                   buffer_list, unsent_items, fpos, successfully_sent_indices,
                   mark_pos, reader_stopping, stop_pc, stop_buffer_list,
                   serial_open, serial_connected, last_error, read_errors, nread,
                   now, crashes, save_failures, wire, wire_life, httpvars,
                   callvars, multivars, relayvars>>

\* connect_tcp(), the connect succeeds on the socket assigned before:
\* tcp_connected = True, tcp_state = 'connected', and flush_buffer is entered
ConnectTcpOk ==
    /\ pc["tcp"] = "connect"
    /\ tcp_socket = "new"
    /\ tcp_socket' = "open"
    /\ tcp_connected' = TRUE
    /\ tcp_state' = "connected"
    /\ pc' = [pc EXCEPT !["tcp"] = "flush"]
    /\ UNCHANGED <<running, serial_accumulator, last_serial_data_time, items,
                   buffer, serial_accumulator_lock, db_lock, status_lock, gs_pc,
                   db_rows, db_pending, data_to_send, buffer_list, unsent_items,
                   fpos, successfully_sent_indices, mark_pos, reader_stopping,
                   stop_pc, stop_buffer_list, serial_open, serial_connected,
                   last_error, read_errors, nread, now, crashes, save_failures,
                   wire, wire_life, httpvars, callvars, multivars, relayvars>>

\* connect_tcp(), the connect raises (no peer, or self.tcp_socket was closed
\* and set to None by the reader meanwhile): tcp_connected = False,
\* tcp_state = 'disconnected', tcp_socket = None; then sleep and loop
ConnectTcpFail ==
    /\ pc["tcp"] = "connect"
    /\ tcp_connected' = FALSE
    /\ tcp_state' = "disconnected"
    /\ tcp_socket' = "None"
    /\ pc' = [pc EXCEPT !["tcp"] = "loop"]
    /\ UNCHANGED <<running, serial_accumulator, last_serial_data_time, items,
                   buffer, serial_accumulator_lock, db_lock, status_lock, gs_pc,
                   db_rows, db_pending, data_to_send, buffer_list, unsent_items,
                   fpos, successfully_sent_indices, mark_pos, reader_stopping,
                   stop_pc, stop_buffer_list, serial_open, serial_connected,
                   last_error, read_errors, nread, now, crashes, save_failures,
                   wire, wire_life, httpvars, callvars, multivars, relayvars>>

\* -------------------------------------------------------------- flush_buffer
\* the guard and step 1: return when not connected or the deque is empty;
\* snapshot the unsent items with their indices; with none, cleanup_old_buffer
\* and return
FlushSnapshot ==
    /\ pc["tcp"] = "flush"
    /\ IF ~tcp_connected \/ tcp_socket = "None" \/ buffer = <<>>
       THEN /\ pc' = [pc EXCEPT !["tcp"] = "loop"]
            /\ UNCHANGED <<buffer, unsent_items, fpos, successfully_sent_indices>>
       ELSE IF UnsentSnapshot(buffer, items) = <<>>
       THEN /\ buffer' = CleanedBuffer(buffer, items)
            /\ pc' = [pc EXCEPT !["tcp"] = "loop"]
            /\ UNCHANGED <<unsent_items, fpos, successfully_sent_indices>>
       ELSE /\ unsent_items' = UnsentSnapshot(buffer, items)
            /\ fpos' = 1
            /\ successfully_sent_indices' = <<>>
            /\ pc' = [pc EXCEPT !["tcp"] = "fl_send"]
            /\ UNCHANGED buffer
    /\ UNCHANGED <<running, serial_accumulator, last_serial_data_time, items,
                   tcp_connected, tcp_socket, tcp_state, serial_accumulator_lock,
                   db_lock, status_lock, gs_pc, db_rows, db_pending,
                   data_to_send, buffer_list, mark_pos, reader_stopping, stop_pc,
                   stop_buffer_list, serial_open, serial_connected, last_error,
                   read_errors, nread, now, crashes, save_failures, wire,
                   wire_life, httpvars, callvars, multivars, relayvars>>

\* step 2, one turn of the for loop: sendall(item['data']); on success record
\* the index; when sendall raises, the except branch (tcp_connected = False,
\* close the socket, tcp_socket = None) and break
FlushSend ==
    /\ pc["tcp"] = "fl_send"
    /\ LET idx  == unsent_items[fpos][1]
           item == items[unsent_items[fpos][2]]
       IN  IF SendallSucceeds
           THEN /\ wire' = wire \cup {item.data}
                /\ wire_life' = Received(item.data)
                /\ successfully_sent_indices' = Append(successfully_sent_indices, idx)
                /\ fpos' = fpos + 1
                /\ pc' = [pc EXCEPT !["tcp"] =
                            IF fpos = Len(unsent_items) THEN "fl_mark" ELSE "fl_send"]
                /\ UNCHANGED <<tcp_connected, tcp_socket>>
           ELSE /\ tcp_connected' = FALSE
                /\ tcp_socket' = "None"
                /\ pc' = [pc EXCEPT !["tcp"] = "fl_mark"]
                /\ UNCHANGED <<wire, wire_life, successfully_sent_indices, fpos>>
    /\ UNCHANGED <<running, serial_accumulator, last_serial_data_time, items,
                   buffer, tcp_state, serial_accumulator_lock, db_lock,
                   status_lock, gs_pc, db_rows, db_pending, data_to_send,
                   buffer_list, unsent_items, mark_pos, reader_stopping, stop_pc,
                   stop_buffer_list, serial_open, serial_connected, last_error,
                   read_errors, nread, now, crashes, save_failures, httpvars,
                   callvars, multivars, relayvars>>

\* where the marking loop goes after the index at position mark_pos + 1
MarkNext ==
    IF mark_pos + 1 = Len(successfully_sent_indices)
    THEN /\ mark_pos' = 0
         /\ pc' = [pc EXCEPT !["tcp"] = "fl_snap"]
    ELSE /\ mark_pos' = mark_pos + 1
         /\ pc' = [pc EXCEPT !["tcp"] = "fl_mark"]

\* step 3, under buffer_lock, for the next recorded index: if it is still
\* < len(self.buffer), self.buffer[idx]['sent'] = 1.  Nothing recorded: no
\* marking and no save_buffer
FlushMark ==
    /\ pc["tcp"] = "fl_mark"
    /\ IF successfully_sent_indices = <<>>
       THEN /\ pc' = [pc EXCEPT !["tcp"] = "fl_cleanup"]
            /\ UNCHANGED <<items, mark_pos>>
       ELSE LET idx == successfully_sent_indices[mark_pos + 1]
            IN  IF idx <= Len(buffer)
                THEN /\ items' = MarkSent(buffer, items, idx)
                     /\ pc' = [pc EXCEPT !["tcp"] = "fl_mark_ts"]
                     /\ UNCHANGED mark_pos
                ELSE /\ MarkNext
                     /\ UNCHANGED items
    /\ UNCHANGED <<running, serial_accumulator, last_serial_data_time, buffer,
                   tcp_connected, tcp_socket, tcp_state, serial_accumulator_lock,
                   db_lock, status_lock, gs_pc, db_rows, db_pending,
                   data_to_send, buffer_list, unsent_items, fpos,
                   successfully_sent_indices, reader_stopping, stop_pc,
                   stop_buffer_list, serial_open, serial_connected, last_error,
                   read_errors, nread, now, crashes, save_failures, wire,
                   wire_life, httpvars, callvars, multivars, relayvars>>

\* step 3, next statement: self.buffer[idx]['sent_timestamp'] = sent_timestamp
FlushMarkTimestamp ==
    /\ pc["tcp"] = "fl_mark_ts"
    /\ items' = MarkSentTimestamp(buffer, items,
                                  successfully_sent_indices[mark_pos + 1])
    /\ MarkNext
    /\ UNCHANGED <<running, serial_accumulator, last_serial_data_time, buffer,
                   tcp_connected, tcp_socket, tcp_state, serial_accumulator_lock,
                   db_lock, status_lock, gs_pc, db_rows, db_pending,
                   data_to_send, buffer_list, unsent_items, fpos,
                   successfully_sent_indices, reader_stopping, stop_pc,
                   stop_buffer_list, serial_open, serial_connected, last_error,
                   read_errors, nread, now, crashes, save_failures, wire,
                   wire_life, httpvars, callvars, multivars, relayvars>>

\* step 3: self.save_buffer()
FlushSaveSnapshot ==
    /\ SaveBufferSnapshot("tcp", "fl_snap", "fl_write")
    /\ UNCHANGED <<running, serial_accumulator, last_serial_data_time, items,
                   buffer, tcp_connected, tcp_socket, tcp_state,
                   serial_accumulator_lock, db_lock, status_lock, gs_pc, db_rows,
                   db_pending, data_to_send, unsent_items, fpos,
                   successfully_sent_indices, mark_pos, reader_stopping, stop_pc,
                   stop_buffer_list, serial_open, serial_connected, last_error,
                   read_errors, nread, now, crashes, save_failures, wire,
                   wire_life, httpvars, callvars, multivars, relayvars>>

FlushSaveWriteFails ==
    /\ SaveBufferFails("tcp", "fl_write", "fl_cleanup")
    /\ UNCHANGED <<running, serial_accumulator, last_serial_data_time, items,
                   buffer, tcp_connected, tcp_socket, tcp_state,
                   serial_accumulator_lock, db_lock, status_lock, gs_pc,
                   db_pending, data_to_send, unsent_items, fpos,
                   successfully_sent_indices, mark_pos, reader_stopping, stop_pc,
                   stop_buffer_list, serial_open, serial_connected, last_error,
                   read_errors, nread, now, crashes, wire, wire_life, httpvars,
                   callvars, multivars, relayvars>>

FlushSaveWrite ==
    /\ SaveBufferWrite("tcp", "fl_write", "fl_cleanup")
    /\ UNCHANGED <<running, serial_accumulator, last_serial_data_time, items,
                   buffer, tcp_connected, tcp_socket, tcp_state,
                   serial_accumulator_lock, db_lock, status_lock, gs_pc,
                   data_to_send, unsent_items, fpos, successfully_sent_indices,
                   mark_pos, reader_stopping, stop_pc, stop_buffer_list,
                   serial_open, serial_connected, last_error, read_errors, nread,
                   now, crashes, save_failures, wire, wire_life, httpvars,
                   callvars, multivars, relayvars>>

\* step 4: self.cleanup_old_buffer(); flush_buffer and connect_tcp return
FlushCleanup ==
    /\ pc["tcp"] = "fl_cleanup"
    /\ buffer' = CleanedBuffer(buffer, items)
    /\ unsent_items' = <<>>
    /\ fpos' = 0
    /\ successfully_sent_indices' = <<>>
    /\ pc' = [pc EXCEPT !["tcp"] = "loop"]
    /\ UNCHANGED <<running, serial_accumulator, last_serial_data_time, items,
                   tcp_connected, tcp_socket, tcp_state, serial_accumulator_lock,
                   db_lock, status_lock, gs_pc, db_rows, db_pending,
                   data_to_send, buffer_list, mark_pos, reader_stopping, stop_pc,
                   stop_buffer_list, serial_open, serial_connected, last_error,
                   read_errors, nread, now, crashes, save_failures, wire,
                   wire_life, httpvars, callvars, multivars, relayvars>>

\* ------------------------------------------------------------ cleanup_thread
\* every 30 s: self.cleanup_old_buffer()
CleanupOldBuffer ==
    /\ pc["cleanup"] = "loop"
    /\ running
    /\ BufferLockFree
    /\ buffer' = CleanedBuffer(buffer, items)
    /\ pc' = [pc EXCEPT !["cleanup"] = "cl_snap"]
    /\ UNCHANGED <<running, serial_accumulator, last_serial_data_time, items,
                   tcp_connected, tcp_socket, tcp_state, serial_accumulator_lock,
                   db_lock, status_lock, gs_pc, db_rows, db_pending,
                   data_to_send, buffer_list, unsent_items, fpos,
                   successfully_sent_indices, mark_pos, reader_stopping, stop_pc,
                   stop_buffer_list, serial_open, serial_connected, last_error,
                   read_errors, nread, now, crashes, save_failures, wire,
                   wire_life, httpvars, callvars, multivars, relayvars>>

\* then self.save_buffer()
CleanupSaveSnapshot ==
    /\ SaveBufferSnapshot("cleanup", "cl_snap", "cl_write")
    /\ UNCHANGED <<running, serial_accumulator, last_serial_data_time, items,
                   buffer, tcp_connected, tcp_socket, tcp_state,
                   serial_accumulator_lock, db_lock, status_lock, gs_pc, db_rows,
                   db_pending, data_to_send, unsent_items, fpos,
                   successfully_sent_indices, mark_pos, reader_stopping, stop_pc,
                   stop_buffer_list, serial_open, serial_connected, last_error,
                   read_errors, nread, now, crashes, save_failures, wire,
                   wire_life, httpvars, callvars, multivars, relayvars>>

CleanupSaveWriteFails ==
    /\ SaveBufferFails("cleanup", "cl_write", "loop")
    /\ UNCHANGED <<running, serial_accumulator, last_serial_data_time, items,
                   buffer, tcp_connected, tcp_socket, tcp_state,
                   serial_accumulator_lock, db_lock, status_lock, gs_pc,
                   db_pending, data_to_send, unsent_items, fpos,
                   successfully_sent_indices, mark_pos, reader_stopping, stop_pc,
                   stop_buffer_list, serial_open, serial_connected, last_error,
                   read_errors, nread, now, crashes, wire, wire_life, httpvars,
                   callvars, multivars, relayvars>>

CleanupSaveWrite ==
    /\ SaveBufferWrite("cleanup", "cl_write", "loop")
    /\ UNCHANGED <<running, serial_accumulator, last_serial_data_time, items,
                   buffer, tcp_connected, tcp_socket, tcp_state,
                   serial_accumulator_lock, db_lock, status_lock, gs_pc,
                   data_to_send, unsent_items, fpos, successfully_sent_indices,
                   mark_pos, reader_stopping, stop_pc, stop_buffer_list,
                   serial_open, serial_connected, last_error, read_errors, nread,
                   now, crashes, save_failures, wire, wire_life, httpvars,
                   callvars, multivars, relayvars>>

\* -------------------------------------------------------------- environment
\* the TCP peer goes away or the link breaks: writes on the socket now fail
NetBreak ==
    /\ tcp_socket = "open"
    /\ tcp_socket' = "broken"
    /\ UNCHANGED <<running, serial_accumulator, last_serial_data_time, items,
                   buffer, tcp_connected, tcp_state, serial_accumulator_lock,
                   db_lock, status_lock, gs_pc, db_rows, db_pending, pc,
                   data_to_send, buffer_list, unsent_items, fpos,
                   successfully_sent_indices, mark_pos, reader_stopping, stop_pc,
                   stop_buffer_list, serial_open, serial_connected, last_error,
                   read_errors, nread, now, crashes, save_failures, wire,
                   wire_life, httpvars, callvars, multivars, relayvars>>

\* 31 days pass
MonthPasses ==
    /\ now < MaxMonths * 31
    /\ now' = now + 31
    /\ UNCHANGED <<running, serial_accumulator, last_serial_data_time, items,
                   buffer, tcp_connected, tcp_socket, tcp_state,
                   serial_accumulator_lock, db_lock, status_lock, gs_pc, db_rows,
                   db_pending, pc, data_to_send, buffer_list, unsent_items, fpos,
                   successfully_sent_indices, mark_pos, reader_stopping, stop_pc,
                   stop_buffer_list, serial_open, serial_connected, last_error,
                   read_errors, nread, crashes, save_failures, wire, wire_life,
                   httpvars, callvars, multivars, relayvars>>

\* the process is killed (memory and uncommitted transactions are lost, the
\* committed rows stay) and the program is run again: a new SinglePortForwarder
\* is constructed on the same database file
KillAndRestart ==
    /\ crashes < MaxCrashes
    /\ crashes' = crashes + 1
    /\ running' = FALSE
    /\ items' = LoadedItems(db_rows)
    /\ buffer' = [i \in 1..Len(LoadedItems(db_rows)) |-> i]
    /\ serial_accumulator' = LoadedPending(db_pending)
    /\ last_serial_data_time' =
           (IF LoadedPending(db_pending) # <<>> THEN 0 ELSE NoneTs)
    /\ tcp_connected' = FALSE
    /\ tcp_socket' = "None"
    /\ tcp_state' = "disconnected"
    /\ serial_accumulator_lock' = "free"
    /\ db_lock' = "free"
    /\ pc' = [t \in Threads |-> "off"]
    /\ data_to_send' = <<>>
    /\ buffer_list' = [t \in Threads |-> <<>>]
    /\ unsent_items' = <<>>
    /\ fpos' = 0
    /\ successfully_sent_indices' = <<>>
    /\ mark_pos' = 0
    /\ start_result' = "none"
    /\ lingering' = {}
    /\ multi_stop_pc' = "idle"
    /\ other_running' = TRUE
    /\ reader_stopping' = FALSE
    /\ stop_pc' = "idle"
    /\ stop_buffer_list' = <<>>
    /\ serial_open' = FALSE
    /\ serial_connected' = FALSE
    /\ last_error' = "None"
    /\ wire_life' = <<>>
    /\ status_lock' = "free"
    /\ gs_pc' = "idle"
    /\ UNCHANGED <<db_rows, db_pending, read_errors, nread, now, save_failures,
                   wire, httpvars, multivars, relayvars>>

\* time passes: time.time() - self.last_serial_data_time grows (counted up to
\* send_delay, all the reader compares it with)
SendDelayPasses ==
    /\ last_serial_data_time # NoneTs
    /\ last_serial_data_time < SendDelay
    /\ last_serial_data_time' = last_serial_data_time + 1
    /\ UNCHANGED <<running, serial_accumulator, items, buffer, tcp_connected,
                   tcp_socket, tcp_state, serial_accumulator_lock, db_lock,
                   status_lock, gs_pc, db_rows, db_pending, pc, data_to_send,
                   buffer_list, unsent_items, fpos, successfully_sent_indices,
                   mark_pos, reader_stopping, stop_pc, stop_buffer_list,
                   serial_open, serial_connected, last_error, read_errors, nread,
                   now, crashes, save_failures, wire, wire_life, httpvars,
                   callvars, multivars, relayvars>>

\* ------------------------------------------------------------------ stop
\* stop(): refuses when not running, else clears the flag
StopBegin ==
    /\ running
    /\ stop_pc = "idle"
    /\ running' = FALSE
    /\ stop_pc' = "join"
    /\ UNCHANGED <<serial_accumulator, last_serial_data_time, items, buffer,
                   tcp_connected, tcp_socket, tcp_state, serial_accumulator_lock,
                   db_lock, status_lock, gs_pc, db_rows, db_pending, pc,
                   data_to_send, buffer_list, unsent_items, fpos,
                   successfully_sent_indices, mark_pos, reader_stopping,
                   stop_buffer_list, serial_open, serial_connected, last_error,
                   read_errors, nread, now, crashes, save_failures, wire,
                   wire_life, httpvars, callvars, multivars, relayvars>>

\* the reader was past the checks of running when stop() cleared the flag:
\* self.serial_port.read(in_waiting) takes the waiting bytes from the device,
\* and "if data and self.running" then skips the extend
ReaderReadAtStop ==
    /\ pc["reader"] = "loop"
    /\ ~running
    /\ stop_pc # "idle"
    /\ serial_connected
    /\ serial_open
    /\ nread < MaxBytes
    /\ nread' = nread + 1
    /\ UNCHANGED <<running, serial_accumulator, last_serial_data_time, items,
                   buffer, tcp_connected, tcp_socket, tcp_state,
                   serial_accumulator_lock, db_lock, status_lock, gs_pc, db_rows,
                   db_pending, pc, data_to_send, buffer_list, unsent_items, fpos,
                   successfully_sent_indices, mark_pos, reader_stopping, stop_pc,
                   stop_buffer_list, serial_open, serial_connected, last_error,
                   read_errors, now, crashes, save_failures, wire, wire_life,
                   httpvars, callvars, multivars, relayvars>>

\* the reader sees running = False at the top of its loop
ReaderExit ==
    /\ pc["reader"] = "loop"
    /\ ~running
    /\ reader_stopping' = TRUE
    /\ pc' = [pc EXCEPT !["reader"] = "final"]
    /\ UNCHANGED <<running, serial_accumulator, last_serial_data_time, items,
                   buffer, tcp_connected, tcp_socket, tcp_state,
                   serial_accumulator_lock, db_lock, status_lock, gs_pc, db_rows,
                   db_pending, data_to_send, buffer_list, unsent_items, fpos,
                   successfully_sent_indices, mark_pos, stop_pc,
                   stop_buffer_list, serial_open, serial_connected, last_error,
                   read_errors, nread, now, crashes, save_failures, wire,
                   wire_life, httpvars, callvars, multivars, relayvars>>

\* "Send any remaining data before stopping": under the accumulator lock, a
\* non-empty accumulator is handed to send_data; then save_pending_data()
ReaderFinalSend ==
    /\ pc["reader"] = "final"
    /\ serial_accumulator_lock = "free"
    /\ IF serial_accumulator # <<>>
       THEN /\ serial_accumulator_lock' = "reader"
            /\ data_to_send' = serial_accumulator
            /\ pc' = [pc EXCEPT !["reader"] = "send_data"]
       ELSE /\ pc' = [pc EXCEPT !["reader"] = "spd_db"]
            /\ UNCHANGED <<serial_accumulator_lock, data_to_send>>
    /\ UNCHANGED <<running, serial_accumulator, last_serial_data_time, items,
                   buffer, tcp_connected, tcp_socket, tcp_state, db_lock,
                   status_lock, gs_pc, db_rows, db_pending, buffer_list,
                   unsent_items, fpos, successfully_sent_indices, mark_pos,
                   reader_stopping, stop_pc, stop_buffer_list, serial_open,
                   serial_connected, last_error, read_errors, nread, now,
                   crashes, save_failures, wire, wire_life, httpvars, callvars,
                   multivars, relayvars>>

\* tcp_reconnect_thread sees running = False at the top of its loop
TcpExit ==
    /\ pc["tcp"] = "loop"
    /\ ~running
    /\ pc' = [pc EXCEPT !["tcp"] = "done"]
    /\ UNCHANGED <<running, serial_accumulator, last_serial_data_time, items,
                   buffer, tcp_connected, tcp_socket, tcp_state,
                   serial_accumulator_lock, db_lock, status_lock, gs_pc, db_rows,
                   db_pending, data_to_send, buffer_list, unsent_items, fpos,
                   successfully_sent_indices, mark_pos, reader_stopping, stop_pc,
                   stop_buffer_list, serial_open, serial_connected, last_error,
                   read_errors, nread, now, crashes, save_failures, wire,
                   wire_life, httpvars, callvars, multivars, relayvars>>

\* cleanup_thread sees running = False at the top of its loop
CleanupExit ==
    /\ pc["cleanup"] = "loop"
    /\ ~running
    /\ pc' = [pc EXCEPT !["cleanup"] = "done"]
    /\ UNCHANGED <<running, serial_accumulator, last_serial_data_time, items,
                   buffer, tcp_connected, tcp_socket, tcp_state,
                   serial_accumulator_lock, db_lock, status_lock, gs_pc, db_rows,
                   db_pending, data_to_send, buffer_list, unsent_items, fpos,
                   successfully_sent_indices, mark_pos, reader_stopping, stop_pc,
                   stop_buffer_list, serial_open, serial_connected, last_error,
                   read_errors, nread, now, crashes, save_failures, wire,
                   wire_life, httpvars, callvars, multivars, relayvars>>

\* stop(): thread.join(timeout=5) for each thread; a thread still alive after
\* the timeout is logged and stop() goes on
StopJoin ==
    /\ stop_pc = "join"
    /\ stop_pc' = "count"
    /\ UNCHANGED <<running, serial_accumulator, last_serial_data_time, items,
                   buffer, tcp_connected, tcp_socket, tcp_state,
                   serial_accumulator_lock, db_lock, status_lock, gs_pc, db_rows,
                   db_pending, pc, data_to_send, buffer_list, unsent_items, fpos,
                   successfully_sent_indices, mark_pos, reader_stopping,
                   stop_buffer_list, serial_open, serial_connected, last_error,
                   read_errors, nread, now, crashes, save_failures, wire,
                   wire_life, httpvars, callvars, multivars, relayvars>>

\* stop(): pending_count = len(self.serial_accumulator) under the lock
StopCount ==
    /\ stop_pc = "count"
    /\ serial_accumulator_lock = "free"
    /\ stop_pc' = IF Len(serial_accumulator) > 0 THEN "spd_db" ELSE "snap"
    /\ UNCHANGED <<running, serial_accumulator, last_serial_data_time, items,
                   buffer, tcp_connected, tcp_socket, tcp_state,
                   serial_accumulator_lock, db_lock, status_lock, gs_pc, db_rows,
                   db_pending, pc, data_to_send, buffer_list, unsent_items, fpos,
                   successfully_sent_indices, mark_pos, reader_stopping,
                   stop_buffer_list, serial_open, serial_connected, last_error,
                   read_errors, nread, now, crashes, save_failures, wire,
                   wire_life, httpvars, callvars, multivars, relayvars>>

\* stop(): save_pending_data, up to the uncommitted DELETE under db_lock
StopSavePendingBegin ==
    /\ stop_pc = "spd_db"
    /\ db_lock = "free"
    /\ db_lock' = "main"
    /\ stop_pc' = "spd_acc"
    /\ UNCHANGED <<running, serial_accumulator, last_serial_data_time, items,
                   buffer, tcp_connected, tcp_socket, tcp_state,
                   serial_accumulator_lock, status_lock, gs_pc, db_rows,
                   db_pending, pc, data_to_send, buffer_list, unsent_items, fpos,
                   successfully_sent_indices, mark_pos, reader_stopping,
                   stop_buffer_list, serial_open, serial_connected, last_error,
                   read_errors, nread, now, crashes, save_failures, wire,
                   wire_life, httpvars, callvars, multivars, relayvars>>

\* stop(): save_pending_data, from "with self.serial_accumulator_lock" on
StopSavePendingCommit ==
    /\ stop_pc = "spd_acc"
    /\ serial_accumulator_lock = "free"
    /\ db_pending' = SavedPending(db_pending, serial_accumulator)
    /\ db_rows' = AfterDeletePending(db_rows)
    /\ db_lock' = "free"
    /\ stop_pc' = "snap"
    /\ UNCHANGED <<running, serial_accumulator, last_serial_data_time, items,
                   buffer, tcp_connected, tcp_socket, tcp_state,
                   serial_accumulator_lock, status_lock, gs_pc, pc, data_to_send,
                   buffer_list, unsent_items, fpos, successfully_sent_indices,
                   mark_pos, reader_stopping, stop_buffer_list, serial_open,
                   serial_connected, last_error, read_errors, nread, now,
                   crashes, save_failures, wire, wire_life, httpvars, callvars,
                   multivars, relayvars>>

\* stop(): save_buffer, first half
StopSaveSnapshot ==
    /\ stop_pc = "snap"
    /\ BufferLockFree
    /\ stop_buffer_list' = buffer
    /\ stop_pc' = "write"
    /\ UNCHANGED <<running, serial_accumulator, last_serial_data_time, items,
                   buffer, tcp_connected, tcp_socket, tcp_state,
                   serial_accumulator_lock, db_lock, status_lock, gs_pc, db_rows,
                   db_pending, pc, data_to_send, buffer_list, unsent_items, fpos,
                   successfully_sent_indices, mark_pos, reader_stopping,
                   serial_open, serial_connected, last_error, read_errors, nread,
                   now, crashes, save_failures, wire, wire_life, httpvars,
                   callvars, multivars, relayvars>>

\* stop(): save_buffer, second half
StopSaveWrite ==
    /\ stop_pc = "write"
    /\ db_lock = "free"
    /\ db_rows' = RowsOf(stop_buffer_list, items)
    /\ db_pending' = AfterDeleteRegular(db_pending)
    /\ stop_buffer_list' = <<>>
    /\ stop_pc' = "close_serial"
    /\ UNCHANGED <<running, serial_accumulator, last_serial_data_time, items,
                   buffer, tcp_connected, tcp_socket, tcp_state,
                   serial_accumulator_lock, db_lock, status_lock, gs_pc, pc,
                   data_to_send, buffer_list, unsent_items, fpos,
                   successfully_sent_indices, mark_pos, reader_stopping,
                   serial_open, serial_connected, last_error, read_errors, nread,
                   now, crashes, save_failures, wire, wire_life, httpvars,
                   callvars, multivars, relayvars>>

\* stop(): self.serial_port.close()
StopCloseSerial ==
    /\ stop_pc = "close_serial"
    /\ serial_open' = FALSE
    /\ stop_pc' = "close_tcp"
    /\ UNCHANGED <<running, serial_accumulator, last_serial_data_time, items,
                   buffer, tcp_connected, tcp_socket, tcp_state,
                   serial_accumulator_lock, db_lock, status_lock, gs_pc, db_rows,
                   db_pending, pc, data_to_send, buffer_list, unsent_items, fpos,
                   successfully_sent_indices, mark_pos, reader_stopping,
                   stop_buffer_list, serial_connected, last_error, read_errors,
                   nread, now, crashes, save_failures, wire, wire_life, httpvars,
                   callvars, multivars, relayvars>>

\* stop(): self.tcp_socket.close() (the attribute keeps the closed socket),
\* self.tcp_connected = False, return True
StopCloseTcp ==
    /\ stop_pc = "close_tcp"
    /\ tcp_socket' = IF tcp_socket = "None" THEN "None" ELSE "broken"
    /\ tcp_connected' = FALSE
    /\ serial_connected' = FALSE
    /\ stop_pc' = "returned"
    /\ UNCHANGED <<running, serial_accumulator, last_serial_data_time, items,
                   buffer, tcp_state, serial_accumulator_lock, db_lock,
                   status_lock, gs_pc, db_rows, db_pending, pc, data_to_send,
                   buffer_list, unsent_items, fpos, successfully_sent_indices,
                   mark_pos, reader_stopping, stop_buffer_list, serial_open,
                   last_error, read_errors, nread, now, crashes, save_failures,
                   wire, wire_life, httpvars, callvars, multivars, relayvars>>

\* start() while self.running: a warning is logged and False returned
StartRunning ==
    /\ running
    /\ start_result' = "False"
    /\ UNCHANGED <<lingering, multi_stop_pc, other_running, tcpvars, httpvars,
                   multivars, relayvars>>

\* a worker thread that has been started and has not returned
Alive(t) == pc[t] \notin {"off", "done"}

\* start() after stop() has returned: the flag is set and three new threads
\* replace self.threads.  A worker of the earlier start() that stop()'s
\* join(timeout=5) did not outlive (tcp_reconnect_thread in
\* time.sleep(reconnect_interval), cleanup_thread in time.sleep(30)) finds
\* self.running true when it wakes and goes on; from here on pc follows the
\* new workers and the older ones are only counted.
StartAgain ==
    /\ ~running
    /\ stop_pc = "returned"
    /\ pc["reader"] = "done"
    /\ \A t \in Threads : pc[t] \in {"loop", "done"}
    /\ running' = TRUE
    /\ lingering' = lingering \cup {t \in Threads : Alive(t)}
    /\ pc' = [t \in Threads |-> "loop"]
    /\ reader_stopping' = FALSE
    /\ serial_open' = TRUE
    /\ serial_connected' = TRUE
    /\ stop_pc' = "idle"
    /\ start_result' = "True"
    /\ UNCHANGED <<serial_accumulator, last_serial_data_time, items, buffer,
                   tcp_connected, tcp_socket, tcp_state, serial_accumulator_lock,
                   db_lock, status_lock, gs_pc, db_rows, db_pending,
                   data_to_send, buffer_list, unsent_items, fpos,
                   successfully_sent_indices, mark_pos, stop_buffer_list,
                   last_error, read_errors, multi_stop_pc, other_running, nread,
                   now, crashes, save_failures, wire, wire_life, httpvars,
                   multivars, relayvars>>

\* the threads of role t that start() has created and that are alive
Workers(t) ==
    (IF Alive(t) THEN 1 ELSE 0) + (IF t \in lingering THEN 1 ELSE 0)

\* MultiPortForwarder.stop(): the for loop calls forwarder.stop() of the first
\* engine, which is running and clears its flag
MultiPortStop ==
    /\ multi_stop_pc = "idle"
    /\ running
    /\ stop_pc = "idle"
    /\ running' = FALSE
    /\ stop_pc' = "join"
    /\ multi_stop_pc' = "first"
    /\ UNCHANGED <<serial_accumulator, last_serial_data_time, items, buffer,
                   tcp_connected, tcp_socket, tcp_state, serial_accumulator_lock,
                   db_lock, status_lock, gs_pc, db_rows, db_pending, pc,
                   data_to_send, buffer_list, unsent_items, fpos,
                   successfully_sent_indices, mark_pos, reader_stopping,
                   stop_buffer_list, serial_open, serial_connected, last_error,
                   read_errors, start_result, lingering, other_running, nread,
                   now, crashes, save_failures, wire, wire_life, httpvars,
                   multivars, relayvars>>

\* MultiPortForwarder.stop(): the first engine's stop() has returned; the loop
\* calls the next engine's stop(), then self.forwarders.clear() and return True
MultiPortStopNext ==
    /\ multi_stop_pc = "first"
    /\ stop_pc = "returned"
    /\ other_running' = FALSE
    /\ multi_stop_pc' = "returned"
    /\ UNCHANGED <<start_result, lingering, tcpvars, httpvars, multivars,
                   relayvars>>

\* one step of a stop() that has begun, or of a worker that has seen the
\* cleared flag
StopSteps ==
    \/ StopJoin \/ StopCount
    \/ StopSavePendingBegin \/ StopSavePendingCommit
    \/ StopSaveSnapshot \/ StopSaveWrite \/ StopCloseSerial \/ StopCloseTcp
    \/ ReaderExit \/ ReaderFinalSend \/ TcpExit \/ CleanupExit

\* one step of stop() or of a worker that has seen the cleared flag
StopRun == StopBegin \/ StopSteps

\* MultiPortForwarder.__init__: self.config = self.load_config()
MultiPortInit ==
    /\ multi_start_pc = "idle"
    /\ config' = LoadConfig(config_file)
    /\ multi_start_pc' = "loaded"
    /\ UNCHANGED <<config_file, forwarders, engines, start_pos,
                   multi_start_result, tcpvars, httpvars, callvars, relayvars>>

\* d[k] = v on a dict kept as its entries in key order: the entry of a key
\* that is there is replaced, a new key is added
DictSet(d, k, v) ==
    IF \E i \in 1..Len(d) : d[i].name = k
    THEN [i \in 1..Len(d) |-> IF d[i].name = k THEN [name |-> k, engine |-> v]
                                               ELSE d[i]]
    ELSE Append(d, [name |-> k, engine |-> v])

\* MultiPortForwarder.start(), one turn of its loop: SinglePortForwarder(...)
\* is created for the next entry of ports and started, which succeeds on a new
\* object, and self.forwarders[port_name] = forwarder
MultiPortStartPort ==
    /\ multi_start_pc = "loaded"
    /\ start_pos < Len(config)
    /\ Len(engines) < MaxEngines
    /\ engines' = Append(engines, [port |-> config[start_pos + 1], running |-> TRUE])
    /\ forwarders' = DictSet(forwarders, config[start_pos + 1], Len(engines) + 1)
    /\ start_pos' = start_pos + 1
    /\ UNCHANGED <<config_file, config, multi_start_pc, multi_start_result,
                   tcpvars, httpvars, callvars, relayvars>>

\* MultiPortForwarder.start() returns: False for "No ports configured", else
\* len(self.forwarders) > 0
MultiPortStartReturn ==
    /\ multi_start_pc = "loaded"
    /\ start_pos = Len(config)
    /\ multi_start_result' = (IF Len(forwarders) > 0 THEN "True" ELSE "False")
    /\ multi_start_pc' = "returned"
    /\ UNCHANGED <<config_file, config, forwarders, engines, start_pos, tcpvars,
                   httpvars, callvars, relayvars>>

\* MultiPortForwarder.start() is called again: it tests nothing and begins
\* its loop over ports
MultiPortStartAgain ==
    /\ multi_start_pc = "returned"
    /\ Len(engines) + Len(config) <= MaxEngines
    /\ multi_start_pc' = "loaded"
    /\ start_pos' = 0
    /\ UNCHANGED <<config_file, config, forwarders, engines, multi_start_result,
                   tcpvars, httpvars, callvars, relayvars>>

\* MultiPortForwarder.stop() with engines whose stop() returns: every engine in
\* self.forwarders is stopped, then self.forwarders.clear()
MultiPortStopAll ==
    /\ multi_start_pc = "returned"
    /\ forwarders # <<>>
    /\ engines' = [e \in 1..Len(engines) |->
                      IF \E i \in 1..Len(forwarders) : forwarders[i].engine = e
                      THEN [engines[e] EXCEPT !.running = FALSE]
                      ELSE engines[e]]
    /\ forwarders' = <<>>
    /\ UNCHANGED <<config_file, config, start_pos, multi_start_pc,
                   multi_start_result, tcpvars, httpvars, callvars, relayvars>>

\* the supervisor constructed and started on a configuration file
SpecConfig ==
    InitConfig
    /\ [][MultiPortInit \/ MultiPortStartPort \/ MultiPortStartReturn]_vars

\* the supervisor started and stopped any number of times by its caller
SpecSupervisor ==
    InitConfig
    /\ [][\/ MultiPortInit \/ MultiPortStartPort \/ MultiPortStartReturn
          \/ MultiPortStartAgain \/ MultiPortStopAll]_vars

\* POST /forward: the request is answered
Forward ==
    /\ answer = NoAnswer
    /\ answer' = ForwardData(request)
    /\ UNCHANGED <<request, tcpvars, httpvars, callvars, multivars>>

\* the relay answering one request
SpecRelay == InitRelay /\ [][Forward]_vars

\* one step of the running engine or of its environment
TcpRun ==
    \/ Start
    \/ ReaderRead \/ ReaderIdleEmit \/ SendDataTest \/ SendDataSendall
    \/ SendDataClose \/ AddToBuffer \/ AddToBufferUpdateStatus \/ AddToBufferSnapshot
    \/ AddToBufferWrite \/ EmitClear \/ SavePendingDataBegin
    \/ SavePendingDataCommit
    \/ ProbeLost \/ ProbeClose \/ ConnectTcpBegin \/ ConnectTcpOk
    \/ ConnectTcpFail
    \/ FlushSnapshot \/ FlushSend \/ FlushMark \/ FlushMarkTimestamp
    \/ FlushSaveSnapshot \/ FlushSaveWrite \/ FlushCleanup
    \/ CleanupOldBuffer \/ CleanupSaveSnapshot \/ CleanupSaveWrite
    \/ NetBreak \/ MonthPasses \/ SendDelayPasses

Next == TcpRun \/ KillAndRestart

\* the engine from its first start, with kills and restarts
Spec == Init /\ [][Next]_vars

\* a transaction of save_buffer fails in one of the three workers
SaveFails == AddToBufferWriteFails \/ FlushSaveWriteFails \/ CleanupSaveWriteFails

\* the engine with kills and restarts and with failing save_buffer transactions
SpecSaveFails == Init /\ [][Next \/ SaveFails]_vars

\* one run of the engine on a database file that earlier runs left behind
SpecStored == InitStored /\ [][TcpRun]_vars

\* the engine started on stored messages, up to one more than the buffer holds
SpecOverfull == InitOverfull /\ [][TcpRun]_vars

\* the running engine with a caller of get_status(), as the web service is
SpecStatus == Init /\ [][TcpRun \/ GetStatusBegin \/ GetStatusReturn]_vars

\* the retention sweeps of cleanup_thread on a database file with old messages
SpecCleanup ==
    /\ InitAged
    /\ [][\/ Start
          \/ CleanupOldBuffer \/ CleanupSaveSnapshot \/ CleanupSaveWrite
          \/ MonthPasses]_vars

\* the process is killed when no save_buffer is under way
RestartAfterSave == pc["cleanup"] = "loop" /\ KillAndRestart

\* sweeps that change and save the buffer, a reader that only mirrors its
\* accumulator, and a restart after a save
SpecRoundTrip ==
    /\ InitAged
    /\ [][\/ Start
          \/ CleanupOldBuffer \/ CleanupSaveSnapshot \/ CleanupSaveWrite
          \/ ReaderRead \/ SavePendingDataBegin \/ SavePendingDataCommit
          \/ RestartAfterSave]_vars

\* one run of the engine from start() to the end of stop()
SpecStop == Init /\ [][TcpRun \/ StopRun]_vars

\* the engine started, stopped and started again by its caller, with a peer
\* that is never reached: the reader buffers what it reads
RestartRun ==
    \/ Start \/ StartRunning \/ StartAgain \/ StopRun
    \/ ReaderRead \/ SendDataTest \/ AddToBuffer \/ AddToBufferUpdateStatus
    \/ AddToBufferSnapshot
    \/ AddToBufferWrite \/ EmitClear \/ SavePendingDataBegin
    \/ SavePendingDataCommit

SpecRestart == Init /\ [][RestartRun]_vars

\* the same runs with a device that can deliver bytes at the moment of the
\* stop
SpecStopRead == Init /\ [][RestartRun \/ ReaderReadAtStop]_vars

\* the reader on a serial device whose reads fail now and then, with a peer
\* that is never reached
SpecSerial ==
    /\ Init
    /\ [][\/ Start \/ ReaderRead \/ SerialReadError \/ ConnectSerial
          \/ SendDelayPasses \/ ReaderIdleEmit \/ SendDataTest \/ AddToBuffer
          \/ AddToBufferUpdateStatus \/ AddToBufferSnapshot \/ AddToBufferWrite
          \/ EmitClear \/ SavePendingDataBegin \/ SavePendingDataCommit]_vars

\* ------------------------------------------- SinglePortHTTPForwarder
\* where a thread goes when its call of send_buffered_data or its pass ends
AfterPass(t) == IF t = "main" THEN "stopped" ELSE "idle"

\* the sorter of ORDER BY timestamp puts row r behind the rows already sorted
\* whose timestamp is not greater
RECURSIVE InsertByTimestamp(_, _)
InsertByTimestamp(sorted, r) ==
    IF sorted = <<>> THEN <<r>>
    ELSE IF Head(sorted).timestamp <= r.timestamp
         THEN <<Head(sorted)>> \o InsertByTimestamp(Tail(sorted), r)
         ELSE <<r>> \o sorted

\* SELECT id, timestamp, data FROM pending_messages ORDER BY timestamp
RECURSIVE OrderByTimestamp(_)
OrderByTimestamp(rows) ==
    IF rows = <<>> THEN <<>>
    ELSE InsertByTimestamp(OrderByTimestamp(SubSeq(rows, 1, Len(rows) - 1)),
                           rows[Len(rows)])

\* the ids of the rows now in the table
PendingIds == {pending_messages[i].id : i \in 1..Len(pending_messages)}

\* DELETE FROM pending_messages WHERE id = ?
RemoveId(rows, id) == SelectSeq(rows, LAMBDA r : r.id # id)

\* response.status_code == 200
Status200(r) == r \in {"200_ok", "200_mismatch", "200_nojson"}

\* start(): refuses when running, else sets the flag and starts the threads
HttpStart ==
    /\ ~http_running
    /\ hpc["main"] = "off"
    /\ http_running' = TRUE
    /\ hpc' = [t \in HttpThreads |-> IF t = "main" THEN "started" ELSE "idle"]
    /\ UNCHANGED <<http_buffer, last_data_time, messages_sent, sent_seen,
                   sends_ok, pending_messages, next_id, http_data_to_send,
                   messages, mpos, response, returned, hread, wall_clock,
                   idle_checked, accepted, tcpvars, callvars, multivars,
                   relayvars>>

\* serial_reader_thread: a chunk is waiting; add_to_buffer extends the buffer
\* and stamps last_data_time under buffer_lock
HttpReaderRead ==
    /\ http_running
    /\ hread < MaxReads
    /\ hread' = hread + 1
    /\ http_buffer' = Append(http_buffer, hread + 1)
    /\ last_data_time' = TRUE
    /\ UNCHANGED <<http_running, messages_sent, sent_seen, sends_ok,
                   pending_messages, next_id, hpc, http_data_to_send, messages,
                   mpos, response, returned, wall_clock, idle_checked, accepted,
                   tcpvars, callvars, multivars, relayvars>>

\* buffer_timeout_thread: the buffer is non-empty and 5 s have passed since
\* last_data_time, so should_send is set and send_buffered_data is called
BufferTimeout ==
    /\ hpc["timeout"] = "idle"
    /\ http_running
    /\ last_data_time
    /\ http_buffer # <<>>
    /\ idle_checked' = http_buffer
    /\ hpc' = [hpc EXCEPT !["timeout"] = "sbd"]
    /\ UNCHANGED <<http_running, http_buffer, last_data_time, messages_sent,
                   sent_seen, sends_ok, pending_messages, next_id,
                   http_data_to_send, messages, mpos, response, returned, hread,
                   wall_clock, accepted, tcpvars, callvars, multivars, relayvars>>

\* send_buffered_data, under buffer_lock: return on an empty buffer, else take
\* the bytes and clear the buffer
SendBufferedDataTake(t) ==
    /\ hpc[t] = "sbd"
    /\ IF http_buffer = <<>>
       THEN /\ hpc' = [hpc EXCEPT ![t] = AfterPass(t)]
            /\ UNCHANGED <<http_buffer, last_data_time, http_data_to_send>>
       ELSE /\ http_data_to_send' = [http_data_to_send EXCEPT ![t] = http_buffer]
            /\ http_buffer' = <<>>
            /\ last_data_time' = FALSE
            /\ hpc' = [hpc EXCEPT ![t] = "add"]
    /\ UNCHANGED <<http_running, messages_sent, sent_seen, sends_ok,
                   pending_messages, next_id, messages, mpos, response, returned,
                   hread, wall_clock, idle_checked, accepted, tcpvars, callvars,
                   multivars, relayvars>>

\* _add_pending_message: INSERT the taken bytes as a new row
AddPendingMessage(t) ==
    /\ hpc[t] = "add"
    /\ pending_messages' =
          Append(pending_messages, [id |-> next_id, timestamp |-> wall_clock,
                                    data |-> http_data_to_send[t]])
    /\ next_id' = next_id + 1
    /\ http_data_to_send' = [http_data_to_send EXCEPT ![t] = <<>>]
    /\ hpc' = [hpc EXCEPT ![t] = "get"]
    /\ UNCHANGED <<http_running, http_buffer, last_data_time, messages_sent,
                   sent_seen, sends_ok, messages, mpos, response, returned,
                   hread, wall_clock, idle_checked, accepted, tcpvars, callvars,
                   multivars, relayvars>>

\* _add_pending_message when the INSERT raises: the error is logged and
\* swallowed, and send_buffered_data goes on to _send_pending_messages with
\* its local data_to_send unused
AddPendingMessageFails(t) ==
    /\ hpc[t] = "add"
    /\ http_data_to_send' = [http_data_to_send EXCEPT ![t] = <<>>]
    /\ hpc' = [hpc EXCEPT ![t] = "get"]
    /\ UNCHANGED <<http_running, http_buffer, last_data_time, messages_sent,
                   sent_seen, sends_ok, pending_messages, next_id, messages,
                   mpos, response, returned, hread, wall_clock, idle_checked,
                   accepted, tcpvars, callvars, multivars, relayvars>>

\* retry_pending_messages_thread: retry_interval has passed and running holds
RetryTimer ==
    /\ hpc["retry"] = "idle"
    /\ http_running
    /\ hpc' = [hpc EXCEPT !["retry"] = "get"]
    /\ UNCHANGED <<http_running, http_buffer, last_data_time, messages_sent,
                   sent_seen, sends_ok, pending_messages, next_id,
                   http_data_to_send, messages, mpos, response, returned, hread,
                   wall_clock, idle_checked, accepted, tcpvars, callvars,
                   multivars, relayvars>>

\* _get_pending_messages at the head of _send_pending_messages and of the
\* retry thread's loop: the rows as they are now, ORDER BY timestamp; no rows,
\* no loop
GetPendingMessages(t) ==
    /\ hpc[t] = "get"
    /\ IF pending_messages = <<>>
       THEN /\ hpc' = [hpc EXCEPT ![t] = AfterPass(t)]
            /\ UNCHANGED <<messages, mpos>>
       ELSE /\ messages' = [messages EXCEPT ![t] = OrderByTimestamp(pending_messages)]
            /\ mpos' = [mpos EXCEPT ![t] = 1]
            /\ hpc' = [hpc EXCEPT ![t] = "post"]
    /\ UNCHANGED <<http_running, http_buffer, last_data_time, messages_sent,
                   sent_seen, sends_ok, pending_messages, next_id,
                   http_data_to_send, response, returned, hread, wall_clock,
                   idle_checked, accepted, tcpvars, callvars, multivars,
                   relayvars>>

\* where thread t goes after the _send_to_http call of position mpos[t]
AfterPost(t) == IF mpos[t] = 0 THEN AfterPass(t) ELSE "post"

\* one turn of the for loop: _send_to_http(message_id, data).  A 200 removes
\* the row and evaluates self.status['messages_sent'] + 1 for update_status,
\* whatever the body says, and the call will return True; any other status or
\* an exception returns False.  The loop goes on either way.
SendToHttp(t) ==
    /\ hpc[t] = "post"
    /\ LET m == messages[t][mpos[t]]
           last == mpos[t] = Len(messages[t])
       IN  /\ \E r \in Responses :
                /\ response' = r
                /\ returned' = Status200(r)
                /\ pending_messages' =
                      IF Status200(r) THEN RemoveId(pending_messages, m.id)
                                      ELSE pending_messages
                /\ sent_seen' =
                      IF Status200(r) THEN [sent_seen EXCEPT ![t] = messages_sent]
                                      ELSE sent_seen
                /\ sends_ok' = IF Status200(r) THEN sends_ok + 1 ELSE sends_ok
                /\ accepted' =
                      IF r = "200_ok"
                      THEN [accepted EXCEPT ![m.id] = accepted[m.id] + 1]
                      ELSE accepted
                /\ hpc' = [hpc EXCEPT ![t] =
                              IF Status200(r) THEN "count"
                              ELSE IF last THEN AfterPass(t) ELSE "post"]
           /\ mpos' = [mpos EXCEPT ![t] = IF last THEN 0 ELSE mpos[t] + 1]
           /\ messages' = [messages EXCEPT ![t] = IF last THEN <<>> ELSE messages[t]]
    /\ UNCHANGED <<http_running, http_buffer, last_data_time, messages_sent,
                   next_id, http_data_to_send, hread, wall_clock, idle_checked,
                   tcpvars, callvars, multivars, relayvars>>

\* update_status('messages_sent', <the value evaluated before>): under
\* status_lock the value is stored; _send_to_http returns True
UpdateMessagesSent(t) ==
    /\ hpc[t] = "count"
    /\ messages_sent' = sent_seen[t] + 1
    /\ sent_seen' = [sent_seen EXCEPT ![t] = 0]
    /\ hpc' = [hpc EXCEPT ![t] = AfterPost(t)]
    /\ UNCHANGED <<http_running, http_buffer, last_data_time, sends_ok,
                   pending_messages, next_id, http_data_to_send, messages, mpos,
                   response, returned, hread, wall_clock, idle_checked, accepted,
                   tcpvars, callvars, multivars, relayvars>>

\* stop(): clears the flag, waits at most 2 s for each thread and goes on to
\* send_buffered_data whether or not the threads have ended
HttpStop ==
    /\ http_running
    /\ hpc["main"] = "started"
    /\ http_running' = FALSE
    /\ hpc' = [hpc EXCEPT !["main"] = "sbd"]
    /\ UNCHANGED <<http_buffer, last_data_time, messages_sent, sent_seen,
                   sends_ok, pending_messages, next_id, http_data_to_send,
                   messages, mpos, response, returned, hread, wall_clock,
                   idle_checked, accepted, tcpvars, callvars, multivars,
                   relayvars>>

HttpNext ==
    \/ HttpStart
    \/ HttpReaderRead
    \/ BufferTimeout
    \/ RetryTimer
    \/ \E t \in {"timeout", "main"} : SendBufferedDataTake(t)
    \/ \E t \in {"timeout", "main"} : AddPendingMessage(t)
    \/ \E t \in HttpThreads : GetPendingMessages(t)
    \/ \E t \in HttpThreads : SendToHttp(t)
    \/ \E t \in HttpThreads : UpdateMessagesSent(t)
    \/ HttpStop

\* the HTTP engine from its first start to the end of stop()
SpecHttp == Init /\ [][HttpNext]_vars

\* the system clock is set back (by hand or by a time service)
WallClockSet ==
    /\ \E v \in 0..(wall_clock - 1) : wall_clock' = v
    /\ UNCHANGED <<http_running, http_buffer, last_data_time, messages_sent,
                   sent_seen, sends_ok, pending_messages, next_id, hpc,
                   http_data_to_send, messages, mpos, response, returned, hread,
                   idle_checked, accepted, tcpvars, callvars, multivars,
                   relayvars>>

\* the HTTP engine on a host whose clock is set back while it runs
SpecHttpClock == Init /\ [][HttpNext \/ WallClockSet]_vars

\* the HTTP engine with INSERTs into pending_messages that fail
SpecHttpFails ==
    Init /\ [][HttpNext
               \/ \E t \in {"timeout", "main"} : AddPendingMessageFails(t)]_vars

\* the steps a scheduled thread takes by itself (no byte arriving, no answer
\* of the peer needed): each thread that can take one eventually does
ReaderProgress ==
    \/ ReaderIdleEmit \/ SendDataTest \/ SendDataSendall \/ SendDataClose
    \/ AddToBuffer \/ AddToBufferUpdateStatus \/ AddToBufferSnapshot
    \/ AddToBufferWrite \/ EmitClear
    \/ SavePendingDataBegin \/ SavePendingDataCommit

TcpProgress ==
    \/ ConnectTcpBegin
    \/ ProbeClose \/ FlushSnapshot \/ FlushSend \/ FlushMark \/ FlushMarkTimestamp
    \/ FlushSaveSnapshot \/ FlushSaveWrite \/ FlushCleanup

CleanupProgress == CleanupOldBuffer \/ CleanupSaveSnapshot \/ CleanupSaveWrite

\* self.tcp_socket.connect returns or raises (settimeout(5))
ConnectReturns == ConnectTcpOk \/ ConnectTcpFail

\* one uninterrupted run of the engine with its three threads scheduled fairly
FairSpec ==
    /\ Init
    /\ [][TcpRun]_vars
    /\ WF_vars(ReaderProgress)
    /\ WF_vars(TcpProgress)
    /\ WF_vars(CleanupProgress)
    /\ WF_vars(ConnectReturns)
    /\ WF_vars(SendDelayPasses)

\* the supervisor stopping its engines, every thread scheduled fairly: the
\* workers, the thread inside the engine's stop() and the one inside the
\* supervisor's
FairMultiSpec ==
    /\ Init
    /\ [][TcpRun \/ MultiPortStop \/ MultiPortStopNext \/ StopSteps]_vars
    /\ WF_vars(ReaderProgress)
    /\ WF_vars(TcpProgress)
    /\ WF_vars(CleanupProgress)
    /\ WF_vars(ConnectReturns)
    /\ WF_vars(SendDelayPasses)
    /\ WF_vars(StopSteps)
    /\ WF_vars(MultiPortStopNext)

\* ------------------------------------------------------------------ claims
\* the messages of the in-memory buffer, oldest first
BufferedItems == [i \in 1..Len(buffer) |-> items[buffer[i]]]

\* the reader is between taking the accumulated bytes and clearing them
ReaderEmitting ==
    pc["reader"] \in {"send_data", "sd_sendall", "sd_close", "sd_add", "sd_count",
                      "sd_snap",
                      "sd_write", "emit_clear"}

SentImpliesWritten ==
    /\ \A i \in 1..Len(buffer) :
          BufferedItems[i].sent = 1 => BufferedItems[i].data \in wire
    /\ \A i \in 1..Len(db_rows) : db_rows[i].sent = 1 => db_rows[i].data \in wire

SentStaysSent ==
    \A o \in DOMAIN items :
        items[o].sent = 1 => (o \in DOMAIN items' /\ items'[o].sent = 1)

\* C1: in every state of a run, a message of the buffer (in memory or in the
\* table) has sent = 1 only if its payload was written to the socket by a
\* sendall that returned, and no message goes back from sent = 1 to sent = 0.
C1_SentOnlyAfterWrite == []SentImpliesWritten /\ [][SentStaysSent]_vars

\* where byte b is: in the accumulator or its mirror (the pending record), and
\* in how many buffered messages
InAccumulator(b) ==
    \/ b \in BytesOf(serial_accumulator)
    \/ \E i \in 1..Len(db_pending) : b \in BytesOf(db_pending[i])

MessagesHolding(b) == {i \in 1..Len(buffer) : b \in BytesOf(BufferedItems[i].data)}

\* C2: whenever the reader is not in the middle of an emission, every byte read
\* so far is in exactly one place: the accumulator (with its mirror, the pending
\* record), or exactly one buffered message (sent or unsent).
C2_EveryByteInOnePlace ==
    ~ReaderEmitting =>
        \A b \in 1..nread :
            /\ InAccumulator(b) \/ MessagesHolding(b) # {}
            /\ ~(InAccumulator(b) /\ MessagesHolding(b) # {})
            /\ Cardinality(MessagesHolding(b)) <= 1

\* send_data's sendall returns normally in this step
DirectWrite == pc["reader"] = "sd_sendall" /\ pc'["reader"] = "emit_clear"

NoUnsentBuffered == \A i \in 1..Len(buffer) : BufferedItems[i].sent # 0

\* C3: send_data never writes a newly emitted message to the socket while an
\* older message is still unsent in the buffer.
C3_NoOvertaking == [][DirectWrite => NoUnsentBuffered]_vars

\* flush_buffer has left its send loop through the break, at the k-th item
FlushBrokeAt(k) ==
    /\ pc["tcp"] \in {"fl_snap", "fl_write", "fl_cleanup"}
    /\ k = fpos
    /\ k <= Len(unsent_items)

\* where in the buffer the message with reference o is now (0: evicted)
PositionOf(o) ==
    IF \E i \in 1..Len(buffer) : buffer[i] = o
    THEN CHOOSE i \in 1..Len(buffer) : buffer[i] = o
    ELSE 0

\* C4: after a flush whose k-th send failed, exactly the first k-1 messages of
\* the snapshot have been marked sent; the k-th and the later ones that the
\* bounded buffer still holds are unsent and keep their order, so the next
\* flush attempts them in that order.
C4_PrefixMarked ==
    \A k \in 1..Len(unsent_items) :
        FlushBrokeAt(k) =>
            LET n == Len(unsent_items)
                snap == [j \in 1..n |-> unsent_items[j][2]]
                held == {j \in 1..n : PositionOf(snap[j]) # 0}
            IN  /\ \A j \in held : (j < k) = (items[snap[j]].sent = 1)
                /\ \A i, j \in held :
                      i < j => PositionOf(snap[i]) < PositionOf(snap[j])

\* thread t makes a POST in this step
Posts(t) == hpc[t] = "post" /\ mpos'[t] # mpos[t]

\* C5: a delivery pass of the HTTP engine stops at the first POST that fails:
\* a thread never gets a message delivered while a message that comes earlier
\* in the same pass is still pending.
C5_PassStopsAtFailure ==
    [][\A t \in HttpThreads :
          (Posts(t) /\ returned')
              => \A j \in 1..(mpos[t] - 1) : messages[t][j].id \notin PendingIds]_vars

\* C6: _send_to_http returns True (and has removed the message and counted it)
\* exactly when the response was a 200 whose bytes_sent equals the payload
\* length.
C6_DeliveredOnlyWhenVerified ==
    response # "none" => (returned <=> response = "200_ok")

\* C7: without a crash, no pending message of the HTTP engine is successfully
\* POSTed twice, whatever the interleaving of the timeout thread, the retry
\* thread and stop().
C7_NoDoublePost == \A id \in DOMAIN accepted : accepted[id] <= 1

\* the engine holds a socket that works
TransportUp == tcp_connected /\ tcp_socket = "open"

\* C8: once the transport is connected and stays connected, every buffered
\* message with sent = 0 is eventually delivered and marked sent, without any
\* further connect or disconnect.
C8_UnsentEventuallySent == <>[]TransportUp => <>[]NoUnsentBuffered

\* C9: after a kill and restart, the transport receives the payload of a
\* buffered message at most once in the new process (in particular not once
\* from the buffer and once more from the restored accumulator).
C9_ReceivedOnceAfterRestart ==
    crashes >= 1 =>
        \A i \in 1..Len(buffer) : TimesReceived(BufferedItems[i].data) <= 1

\* C10: when the process is killed while the accumulator holds bytes that are
\* not being emitted, the restarted engine's accumulator holds those bytes.
C10_AccumulatorSurvivesKill ==
    [][(crashes' = crashes + 1 /\ ~ReaderEmitting)
          => serial_accumulator' = serial_accumulator]_vars

\* s is the last Len(s) bytes read, in the order they arrived
LatestBytes(s) == \A i \in 1..Len(s) : s[i] = nread - Len(s) + i

\* the reader's loop takes the accumulated bytes for emission in this step
EmissionStarts == pc["reader"] = "loop" /\ pc'["reader"] = "send_data"

\* the reader takes the accumulated bytes for emission in this step, in its
\* loop or on its way out
AnyEmissionStarts == pc["reader"] # "send_data" /\ pc'["reader"] = "send_data"

\* the reader leaves the clearing step after send_data
EmissionEnds == pc["reader"] = "emit_clear" /\ pc'["reader"] # "emit_clear"

\* the accumulator holds the bytes read since the last emission, and what is
\* being emitted is the whole accumulator
BurstAccumulated ==
    /\ LatestBytes(serial_accumulator)
    /\ ReaderEmitting =>
          (data_to_send # <<>> /\ data_to_send = serial_accumulator)

\* the accumulator changes only by a chunk appended at its end or by being
\* emptied at the end of an emission
AccumulatorStep ==
    serial_accumulator' # serial_accumulator =>
        \/ /\ nread' = nread + 1
           /\ serial_accumulator' = Append(serial_accumulator, nread')
           /\ last_serial_data_time' = 0
        \/ EmissionEnds

DataOf(msgs) == {msgs[i].data : i \in 1..Len(msgs)}

\* the payloads of its unsent messages
UnsentDataOf(msgs) == {msgs[i].data : i \in {j \in 1..Len(msgs) : msgs[j].sent = 0}}

\* C12: no step of the engine removes a message with sent = 0 from the
\* in-memory buffer or from the table: an unsent message of either is still
\* there after the step (unsent or marked sent).
C12_UnsentNeverRemoved ==
    [][/\ UnsentDataOf(BufferedItems) \subseteq DataOf(BufferedItems')
       /\ UnsentDataOf(db_rows) \subseteq DataOf(db_rows')]_vars

\* cleanup_thread's call of cleanup_old_buffer happens in this step
Sweeps == pc["cleanup"] = "loop" /\ pc'["cleanup"] = "cl_snap"

\* the message was marked sent more than 30 days ago
Expired(m) == m.sent = 1 /\ now - m.sent_timestamp > 30

\* C13: a sweep removes from the buffer exactly the messages with sent = 1
\* whose sent timestamp is more than 30 days old (31 days: removed; 30 or 29
\* days: retained), never a message with sent = 0, and leaves the others in
\* their order and unchanged.
C13_SweepRemovesExpired ==
    [][Sweeps =>
          /\ buffer' = SelectSeq(buffer, LAMBDA o : ~Expired(items[o]))
          /\ items' = items]_vars

\* a sweep has just removed a message sent 31 days ago and kept one sent 29
\* days ago
C13_Witness ==
    /\ pc["cleanup"] = "cl_snap"
    /\ now = 0
    /\ Len(items) = 2 /\ items[1].sent = 1 /\ items[1].sent_timestamp = 0 - 31
    /\ buffer = <<2>> /\ items[2].sent = 1 /\ items[2].sent_timestamp = 0 - 29

\* A message record agrees with itself: a sent message carries a timestamp of
\* sending that is not before its creation, an unsent message carries none.
WellStamped(m) ==
    /\ m.sent = 1 => m.sent_timestamp # NoneTs /\ m.sent_timestamp >= m.timestamp
    /\ m.sent = 0 => m.sent_timestamp = NoneTs

\* C14: every message of the durable store, and every message of the in-memory
\* buffer whenever the buffer lock is free, has sent = 1 only with a
\* sent_timestamp that is set and not before its creation timestamp, and
\* sent = 0 only with no sent_timestamp.
C14_SentHasTimestamp ==
    /\ \A i \in 1..Len(db_rows) : WellStamped(db_rows[i])
    /\ BufferLockFree => \A i \in 1..Len(buffer) : WellStamped(items[buffer[i]])

\* C15: whatever save_pending_data, save_buffer and kills with restart have
\* happened, the table holds at most one PENDING_ACCUMULATOR row.
C15_AtMostOnePendingRow == Len(db_pending) <= 1

\* C15 witness: the engine was killed and started again, save_buffer has
\* written a message row and save_pending_data a PENDING_ACCUMULATOR row.
C15_Witness ==
    /\ crashes = 1
    /\ running
    /\ db_rows # <<>>
    /\ Len(db_pending) = 1

\* C16: a start() called while the engine is running returns False and changes
\* nothing else, and at no time is more than one worker of a role (reader,
\* transport, sweeper) that start() created alive.
C16_StartOnlyOnce ==
    /\ [][(running /\ start_result' # start_result)
             => /\ start_result' = "False"
                /\ UNCHANGED <<tcpvars, httpvars, lingering>>]_vars
    /\ [](\A t \in Threads : Workers(t) <= 1)

\* stop() has left its loop of joins
StopPastJoin == stop_pc \notin {"idle", "join"}

\* C17: while stop() counts the residual accumulator, writes the pending
\* record and persists the buffer, and from then on, every worker has
\* terminated and none adds a byte to the accumulator or a message to the
\* buffer.
C17_SavesAfterWorkers ==
    /\ [](StopPastJoin => \A t \in Threads : ~Alive(t))
    /\ [][StopPastJoin => /\ Len(serial_accumulator') <= Len(serial_accumulator)
                          /\ Range(buffer') \subseteq Range(buffer)]_vars

\* C18: stop() clears running first, has closed the serial handle by the time
\* it is past joining the workers, and closes the transport as its last step,
\* after the buffer was persisted.
C18_StopOrder ==
    /\ [](stop_pc # "idle" => ~running)
    /\ [](StopPastJoin => ~serial_open)
    /\ [][stop_pc' = "returned" => stop_pc \in {"close_tcp", "returned"}]_vars

\* C19: once the supervisor's stop() has been called it returns, having gone
\* on to stop the other engine, whatever the workers of the first engine do.
C19_SupervisorStopReturns ==
    (multi_stop_pc = "first") ~> (multi_stop_pc = "returned" /\ ~other_running)

\* the reader's next statement is a call on the socket (sendall, close)
ReaderAtTransportIO == pc["reader"] \in {"sd_sendall", "sd_close"}

\* the reader's next statement is in a database transaction of save_buffer or
\* save_pending_data
ReaderAtStoreIO == pc["reader"] \in {"sd_write", "spd_db", "spd_acc"}

\* C20: the reader does no socket and no database call while it holds the
\* accumulator lock, the marking loop that holds the buffer lock is at no such
\* call, and a thread that holds db_lock holds no other lock and is not about
\* to take one.
C20_NoIOUnderLocks ==
    /\ serial_accumulator_lock = "reader"
          => ~ReaderAtTransportIO /\ ~ReaderAtStoreIO
    /\ ~BufferLockFree => pc["tcp"] \in {"fl_mark", "fl_mark_ts"}
    /\ db_lock = "reader"
          => serial_accumulator_lock # "reader" /\ pc["reader"] # "spd_acc"
    /\ db_lock = "main" => stop_pc # "spd_acc"

\* the changes of the transport state that the cycle disconnected ->
\* connecting -> connected -> disconnected allows (a connect that fails goes
\* from connecting back to disconnected)
TcpStateCycle ==
    {<<"disconnected", "connecting">>, <<"connecting", "connected">>,
     <<"connecting", "disconnected">>, <<"connected", "disconnected">>}

\* C21: the tcp_state of the status snapshot changes only along the cycle
\* disconnected -> connecting -> connected -> disconnected, and whenever it is
\* 'connected' the engine's tcp_connected flag is true.
C21_TcpStateReflectsConnection ==
    /\ [](tcp_state = "connected" => tcp_connected)
    /\ [][tcp_state' # tcp_state => <<tcp_state, tcp_state'>> \in TcpStateCycle]_vars

\* a transaction of save_buffer fails in this step
SaveFailsNow == save_failures' # save_failures

\* the process is killed and constructed again in this step
RestartsNow == crashes' # crashes

\* C22: a save_buffer whose transaction fails leaves every row of the table
\* as it was, so a message marked sent in memory only keeps sent = 0 in the
\* table; and a restart brings every row with sent = 0 back into the buffer
\* as an unsent message, to be sent again.
C22_FailedSaveRollsBack ==
    /\ [][SaveFailsNow => db_rows' = db_rows /\ db_pending' = db_pending]_vars
    /\ [][RestartsNow =>
            \A i \in 1..Len(db_rows) :
                db_rows[i].sent = 0 =>
                    \E j \in 1..Len(buffer') : items'[buffer'[j]] = db_rows[i]]_vars

\* C22 witness: flush_buffer has marked a message sent and is past its
\* save_buffer, one transaction has failed, and the table still holds the
\* message with sent = 0.
C22_Witness ==
    /\ save_failures = 1
    /\ pc["tcp"] = "fl_cleanup"
    /\ \E j \in 1..Len(buffer) : \E i \in 1..Len(db_rows) :
          /\ items[buffer[j]].sent = 1
          /\ db_rows[i].data = items[buffer[j]].data
          /\ db_rows[i].sent = 0

\* thread t of the HTTP engine leaves _add_pending_message in this step
\* without a new row in the table
InsertFailsNow(t) ==
    hpc[t] = "add" /\ hpc'[t] # "add" /\ pending_messages' = pending_messages

\* the chunks the HTTP engine still holds: in self.buffer, in the table, or
\* in the hands of a thread
HttpHeld ==
    Range(http_buffer)
        \cup UNION {Range(pending_messages[i].data) : i \in 1..Len(pending_messages)}
        \cup UNION {Range(http_data_to_send[t]) : t \in HttpThreads}

\* C23: when the insert of a newly emitted message fails, the engine still
\* holds its bytes afterwards: the HTTP engine in its buffer or table, the TCP
\* engine in its in-memory buffer.
C23_FailedInsertKeepsBytes ==
    /\ [][\A t \in HttpThreads :
            InsertFailsNow(t) => Range(http_data_to_send[t]) \subseteq HttpHeld']_vars
    /\ [][SaveFailsNow => buffer' = buffer /\ items' = items]_vars

\* C24: on a configuration file that is missing or does not parse the
\* supervisor creates and starts no engine, and its start() does not report
\* success.
C24_BadConfigAborts ==
    config_file.kind \in {"missing", "invalid"}
        => /\ forwarders = <<>>
           /\ multi_start_result # "True"

\* no thread of the HTTP engine is between reading and storing the counter
NoCountPending == \A t \in HttpThreads : hpc[t] # "count"

\* C25: whatever the interleaving of the threads that send, the counter
\* messages_sent is the number of successful sends once every update_status
\* that was begun is done: no increment is lost.
C25_NoLostIncrement == NoCountPending => messages_sent = sends_ok

\* the request's data is there and is not the hex encoding of a payload
InvalidHex(req) ==
    ~NoData(req) /\ (req.data.kind # "text" \/ ~FromHex(req.data.text).ok)

\* C26: POST /forward answers 200, with bytes_sent the length of the decoded
\* payload, only when the payload was written to the target; a request
\* without data, without tcp_port or with invalid hex is answered 400 and no
\* connection is opened; a failed connect or send is answered 500.
C26_ForwardAnswers ==
    answer # NoAnswer =>
        /\ answer.status = 200 =>
              /\ answer.written
              /\ answer.bytes_sent = Len(FromHex(request.data.text).bytes)
        /\ (NoData(request) \/ request.tcp_port = 0 \/ InvalidHex(request))
              => answer.status = 400 /\ ~answer.connected
        /\ (~NoData(request) /\ request.tcp_port # 0 /\ ~InvalidHex(request)
               /\ request.target # "ok") => answer.status = 500

\* add_to_buffer runs on a deque that is full
AddsToFullBuffer ==
    /\ pc["reader"] = "sd_add"
    /\ pc'["reader"] = "sd_count"
    /\ Len(buffer) = BufferSize

\* C27: the buffer never holds more than buffer_size messages; add_to_buffer
\* on a full buffer evicts the oldest message and appends the new one at the
\* tail; load_buffer on more rows than buffer_size leaves the newest
\* buffer_size of them, in order, in the buffer the engine starts with.
C27_BufferBounded ==
    /\ [](Len(buffer) <= BufferSize)
    /\ [][AddsToFullBuffer =>
             /\ Len(buffer') = BufferSize
             /\ \A j \in 1..(BufferSize - 1) : buffer'[j] = buffer[j + 1]
             /\ items'[buffer'[BufferSize]] = NewMessage(data_to_send)]_vars
    /\ [](~running /\ Len(db_rows) > BufferSize =>
             /\ Len(buffer) = BufferSize
             /\ \A j \in 1..BufferSize :
                   items[buffer[j]] = db_rows[Len(db_rows) - BufferSize + j])

\* C27 witness: the buffer, loaded from more rows than it holds, has had a
\* new message appended and now holds the newest stored row and that message
C27_Witness ==
    /\ Len(db_rows) > BufferSize
    /\ pc["reader"] = "sd_count"
    /\ Len(buffer) = BufferSize
    /\ items[buffer[1]] = db_rows[Len(db_rows)]
    /\ items[buffer[BufferSize]].data = data_to_send

\* the reader is inside save_pending_data at 'with self.serial_accumulator_lock'
\* and is itself the holder of that lock
ReaderAcquiresHeldLock ==
    pc["reader"] = "spd_acc" /\ serial_accumulator_lock = "reader"

\* the reader is back in its loop and holds neither lock
ReaderBackInLoop ==
    /\ pc["reader"] = "loop"
    /\ serial_accumulator_lock # "reader"
    /\ db_lock # "reader"

\* C28: the reader's emission path never tries to acquire a lock it already
\* holds: after an idle-triggered emission, sent or buffered, the reader
\* completes save_pending_data, releases serial_accumulator_lock and db_lock
\* and is back in its loop, where it accepts later serial bytes.
C28_EmissionReleasesLocks ==
    /\ [](~ReaderAcquiresHeldLock)
    /\ (pc["reader"] = "emit_clear") ~> ReaderBackInLoop

\* add_to_buffer holds buffer_lock and waits for status_lock while get_status
\* holds status_lock and waits for buffer_lock
StatusBufferCycle ==
    /\ pc["reader"] = "sd_count"
    /\ status_lock = "status"
    /\ gs_pc = "gs_buffer"

\* stop()'s save_pending_data holds db_lock and waits for
\* serial_accumulator_lock while the reader holds that lock and waits for
\* db_lock in save_buffer
StoreAccumulatorCycle ==
    /\ stop_pc = "spd_acc"
    /\ db_lock = "main"
    /\ serial_accumulator_lock = "reader"
    /\ pc["reader"] = "sd_write"

\* C29: the four locks are taken in one order by all operations: no state is
\* reached in which get_status, add_to_buffer, save_buffer, save_pending_data,
\* the reader's emission and stop wait for locks in a cycle, each for a lock
\* that another of them holds.
C29_NoLockCycle == ~StatusBufferCycle /\ ~StoreAccumulatorCycle

\* C30: in every reachable state, under any interleaving of connect_tcp, the
\* liveness probe and the failure handling of send_data and flush_buffer,
\* tcp_connected = True implies that tcp_socket is not None: the reconnect
\* loop is never left believing it is connected while there is no socket.
C30_ConnectedHasSocket == tcp_connected => tcp_socket # "None"

\* no thread is between a change it made to the buffer and the return of the
\* save_buffer that follows the change
SavesReturned ==
    /\ pc["reader"] \notin {"sd_count", "sd_snap", "sd_write"}
    /\ pc["tcp"] \notin {"fl_mark", "fl_mark_ts", "fl_snap", "fl_write"}
    /\ pc["cleanup"] \notin {"cl_snap", "cl_write"}

\* C31: whatever the interleaving of the save_buffer calls of add_to_buffer,
\* flush_buffer and cleanup_thread, once all of them have returned every
\* message of the in-memory buffer is a regular row of the store as it is in
\* memory: an earlier snapshot never overwrites the rows of a later one, and a
\* message whose add_to_buffer has returned stays persisted.
C31_LaterSnapshotWins ==
    SavesReturned =>
        \A i \in 1..Len(buffer) :
            \E j \in 1..Len(db_rows) : db_rows[j] = BufferedItems[i]

\* C32: save_buffer followed by load_buffer (a restart) is a round trip: the
\* reloaded buffer has the same messages in the same order with the same data,
\* timestamp, sent flag and sent_timestamp, and the pending-accumulator row is
\* not loaded as a message.
C32_SaveLoadRoundTrip ==
    [][crashes' = crashes + 1 =>
          /\ BufferedItems' = BufferedItems
          /\ \A i \in 1..Len(buffer') :
                BufferedItems'[i].data \notin Range(db_pending)]_vars

\* C32 witness: the engine was restarted on the rows a sweep saved, which kept
\* the older of two stored messages and removed the newer, and on a pending
\* record
C32_Witness ==
    /\ crashes = 1
    /\ ~running
    /\ Len(buffer) = 1
    /\ BufferedItems[1].data = <<0 - 1>>
    /\ db_pending # <<>>

\* C33: the unsent messages a flush or retry pass iterates are in strictly
\* increasing insertion order, whatever their timestamps: the snapshot of
\* flush_buffer by position in the buffer, the result of
\* _get_pending_messages by id.
C33_PassInInsertionOrder ==
    /\ \A i, j \in 1..Len(unsent_items) :
          i < j => unsent_items[i][1] < unsent_items[j][1]
    /\ \A t \in HttpThreads : \A i, j \in 1..Len(messages[t]) :
          i < j => messages[t][i].id < messages[t][j].id

\* the newest PENDING_ACCUMULATOR row holds every byte of the accumulator
AccumulatorMirrored ==
    /\ db_pending # <<>>
    /\ Range(serial_accumulator) \subseteq Range(db_pending[Len(db_pending)])

\* C34: while the accumulator is non-empty the pending record is rewritten at
\* least every 2 seconds, also when no further byte arrives: once send_delay
\* (more than 2 seconds) has passed since the last byte, the record holds
\* every byte of the accumulator; and once the bytes have been emitted and the
\* reader is back in its loop the record is cleared.
C34_PendingRecordFollows ==
    (running /\ pc["reader"] = "loop") =>
        /\ (serial_accumulator # <<>> /\ last_serial_data_time >= SendDelay)
               => AccumulatorMirrored
        /\ serial_accumulator = <<>> => db_pending = <<>>

\* buffer_timeout_thread's send_buffered_data takes the bytes of the buffer
TimeoutTakes == hpc["timeout"] = "sbd" /\ hpc'["timeout"] = "add"

\* C35: the idle check and the take of the HTTP engine are atomic with
\* respect to the reader: the bytes send_buffered_data removes for
\* buffer_timeout_thread are exactly the bytes its check found idle, never
\* with a chunk appended in between.
C35_TakeIsWhatWasChecked ==
    [][TimeoutTakes => http_data_to_send'["timeout"] = idle_checked]_vars

\* the liveness probe of tcp_reconnect_thread declares the connection lost
ProbeDisconnects ==
    /\ pc["tcp"] = "loop"
    /\ pc'["tcp"] = "probe_close"
    /\ tcp_connected /\ ~tcp_connected'

\* C36: the liveness probe moves a connected transport to disconnected only
\* when the peer has closed or the socket is broken; on an open connection on
\* which the peer has sent nothing it leaves the transport connected.
C36_ProbeKeepsHealthyConnection ==
    [][ProbeDisconnects => tcp_socket = "broken"]_vars

\* C37: on any error while reading the serial device the reader marks the
\* engine serial-disconnected and records the error in last_error, so that it
\* re-enters the reconnect loop; the engine keeps running and the bytes in the
\* accumulator are kept.
C37_ReadErrorReconnects ==
    [][read_errors' = read_errors + 1 =>
          /\ ~serial_connected'
          /\ last_error' = "Serial read error"
          /\ running'
          /\ serial_accumulator' = serial_accumulator]_vars

\* byte b is in a message of the in-memory buffer
InBufferedMessage(b) ==
    \E i \in 1..Len(buffer) : b \in Range(BufferedItems[i].data)

\* byte b is in a PENDING_ACCUMULATOR row
InPendingRecord(b) ==
    \E i \in 1..Len(db_pending) : b \in Range(db_pending[i])

\* C38: on an orderly stop every byte the reader has read from the device
\* before it exits has been handed to an emission (delivered, or buffered as a
\* message) or is in the pending-accumulator record: no byte read around the
\* moment running becomes False is dropped.
C38_StopDropsNoByte ==
    (stop_pc # "idle" /\ pc["reader"] = "done") =>
        \A b \in 1..nread :
            \/ \E d \in wire : b \in Range(d)
            \/ InBufferedMessage(b)
            \/ InPendingRecord(b)

\* the configuration names each port once
DistinctPortNames ==
    \A i, j \in 1..Len(config) : config[i] = config[j] => i = j

\* C39: after any sequence of start() and stop() calls of the supervisor, on
\* a configuration that names each port once, every running engine is an
\* entry of self.forwarders and no two running engines have the same port
\* name: a second start() neither creates a second engine for a port nor
\* orphans the running one.
C39_OneReachableEnginePerPort ==
    DistinctPortNames =>
        /\ \A e \in 1..Len(engines) :
              engines[e].running =>
                  \E i \in 1..Len(forwarders) : forwarders[i].engine = e
        /\ \A e, f \in 1..Len(engines) :
              (engines[e].running /\ engines[f].running
                  /\ engines[e].port = engines[f].port) => e = f

\* a save_buffer transaction of a worker or of stop() commits or rolls back
SaveBufferEnds ==
    \/ \E t \in Threads :
          pc[t] \in {"sd_write", "fl_write", "cl_write"} /\ pc'[t] # pc[t]
    \/ stop_pc = "write" /\ stop_pc' # "write"

\* a save_pending_data transaction of the reader or of stop() commits
SavePendingEnds ==
    \/ pc["reader"] = "spd_acc" /\ pc'["reader"] # "spd_acc"
    \/ stop_pc = "spd_acc" /\ stop_pc' # "spd_acc"

\* C40: save_buffer leaves the pending-accumulator row of the store
\* unchanged, and save_pending_data leaves every regular message row (data,
\* timestamp, sent flag and sent_timestamp) unchanged.
C40_SavesKeepEachOthersRows ==
    /\ [][SaveBufferEnds => db_pending' = db_pending]_vars
    /\ [][SavePendingEnds => db_rows' = db_rows]_vars

\* C40 witness: stop()'s save_pending_data has written the pending record,
\* and stop()'s save_buffer has then written a message row into the table
\* that holds the record
C40_Witness ==
    /\ stop_pc = "close_serial"
    /\ db_pending # <<>>
    /\ db_rows # <<>>

====
